---------------------------- MODULE Spec2Model ----------------------------
(***************************************************************************)
(* wallbot: a polling tracker of marketplace listings.                     *)
(*                                                                         *)
(* The model follows src/product_tracker.py (ProductTracker),              *)
(* src/database.py (DatabaseManager: the product_searches and products     *)
(* tables), src/models.py (the pydantic validators) and                    *)
(* src/notification_service.py (NotificationService, the rate-limited      *)
(* gateway).  Strings whose content the code inspects (keywords, titles)  *)
(* are sequences of characters; time is counted in hours.                 *)
(***************************************************************************)
EXTENDS Integers, Sequences, FiniteSets, TLC

-----------------------------------------------------------------------------
(* Bounds of the model *)

\* largest price the marketplace adapter reports (prices are 1..MaxPrice)
MaxPrice == 3
\* the clock runs from hour 0 to hour MaxTime
MaxTime == 2
\* longest result list one adapter query returns
MaxResults == 1
\* threads the process may ever spawn
MaxThreads == 2
\* largest price bound a user gives a search (bounds are 0..MaxBound, or None)
MaxBound == 1

(* Program constants *)

\* Config.MAX_NOTIFICATIONS_PER_HOUR (environment-configurable, default 50)
MAX_NOTIFICATIONS_PER_HOUR == 2
\* Config.ITEM_CLEANUP_HOURS (environment-configurable, default 24)
ITEM_CLEANUP_HOURS == 1
\* the rate-limit window of _check_rate_limit: 3600 s, i.e. one hour
RATE_WINDOW_HOURS == 1

\* Optional[float] = None
None == -1

Chats == {"c1", "c2"}
Items == {"i1"}
Prices == 1..MaxPrice
Threads == 1..MaxThreads

\* the two NotificationService instances of the process
Services == {"tracker", "bot"}

\* the threads that call the tracker's NotificationService: the polling
\* worker and the thread that handles a command
Callers == {"worker", "command"}

\* what requests.post can do: status 200, another status, an exception
TransportOutcomes == {"ok", "http_error", "exception"}

-----------------------------------------------------------------------------
(* Strings *)

RECURSIVE LStrip(_)
LStrip(s) == IF s # <<>> /\ Head(s) = " " THEN LStrip(Tail(s)) ELSE s

RECURSIVE RStrip(_)
RStrip(s) ==
    IF s # <<>> /\ s[Len(s)] = " " THEN RStrip(SubSeq(s, 1, Len(s) - 1)) ELSE s

\* str.strip()
Strip(s) == RStrip(LStrip(s))

-----------------------------------------------------------------------------
VARIABLES
    product_searches,   \* table product_searches: a set of rows
    products,           \* table products: a set of rows
    notification_count, \* NotificationService.notification_count, per instance
    last_reset,         \* NotificationService.last_reset, per instance
    now,                \* the wall clock, in hours
    utc_offset,         \* local time minus UTC, in hours
    is_running,         \* ProductTracker.is_running
    search_thread,      \* ProductTracker.search_thread: a thread id, or 0
    cleanup_jobs,       \* cleanup jobs registered with the scheduler
    pc,                 \* per thread: where the worker is in _search_loop
    queue,              \* per thread: searches of this cycle still to process
    results,            \* per thread: results of the current search still to process
    out,                \* what the last step returned and handed to the gateway
    first_seen,         \* history: per (chat, listing), the price its row was created at
    lifecycle,          \* history: per (chat, keywords), how far the search has come
    confirmed,          \* history: per instance, sends confirmed since the window was reset
    told,               \* history: per (chat, listing), the price last announced to the chat
    sending             \* per calling thread: where it is inside _send_telegram_message

vars == <<product_searches, products, notification_count, last_reset, now,
          utc_offset, is_running, search_thread, cleanup_jobs, pc, queue,
          results, out, first_seen, lifecycle, confirmed, told, sending>>


-----------------------------------------------------------------------------
(* src/models.py: the validators *)

\* Field(..., max_length=200) of ProductSearch.keywords
KEYWORDS_MAX_LENGTH == 200

\* ValidProductSearch as a bug would have it: equal bounds pass
ValidProductSearch_EqualPasses(keywords, min_price, max_price) ==
    /\ Len(keywords) >= 1
    /\ Len(keywords) <= KEYWORDS_MAX_LENGTH
    /\ Strip(keywords) # <<>>
    /\ (min_price # None => min_price >= 0)
    /\ (max_price # None => max_price >= 0)
    /\ ~(max_price # None /\ min_price # None /\ max_price < min_price)

\* ProductSearch(...) does not raise ValidationError
ValidProductSearch(keywords, min_price, max_price) ==
    /\ Len(keywords) >= 1
    /\ Len(keywords) <= KEYWORDS_MAX_LENGTH
    /\ Strip(keywords) # <<>>
    /\ (min_price # None => min_price >= 0)
    /\ (max_price # None => max_price >= 0)
    /\ ~(max_price # None /\ min_price # None /\ max_price <= min_price)

\* ValidProduct as a bug would have it: the title is not looked at
ValidProduct_AnyTitle(title, price) == price > 0

\* Product(...) does not raise ValidationError
ValidProduct(title, price) ==
    /\ price > 0
    /\ Strip(title) # <<>>

\* SearchResult(...) does not raise ValidationError
ValidSearchResult(price) == price > 0

-----------------------------------------------------------------------------
(* src/database.py: the statements, as functions of a table *)

\* the clock of the database (CURRENT_TIMESTAMP is UTC)
CurrentTimestamp == now - utc_offset

\* the row of product_searches that holds the ProductSearch search; the
\* columns id and created_at are written by the database and never read
SearchRow(search) ==
    [chat_id |-> search.chat_id, keywords |-> search.keywords,
     min_price |-> search.min_price, max_price |-> search.max_price,
     active |-> search.active, updated_at |-> now]

\* the ProductSearch rebuilt from a row
SearchOfRow(r) ==
    [chat_id |-> r.chat_id, keywords |-> r.keywords,
     min_price |-> r.min_price, max_price |-> r.max_price,
     active |-> r.active]

\* DbAddSearch as a bug would have it: a plain INSERT, no conflict clause
DbAddSearch_NoReplace(tbl, search) == tbl \cup {SearchRow(search)}

\* DbAddSearch as a bug would have it: INSERT OR IGNORE, an existing row stays
DbAddSearch_Ignore(tbl, search) ==
    IF \E r \in tbl : r.chat_id = search.chat_id /\ r.keywords = search.keywords
    THEN tbl
    ELSE tbl \cup {SearchRow(search)}

\* DbAddSearch as a bug would have it: an existing row is set active again
\* and keeps its other columns
DbAddSearch_Reactivate(tbl, search) ==
    IF \E r \in tbl : r.chat_id = search.chat_id /\ r.keywords = search.keywords
    THEN {IF r.chat_id = search.chat_id /\ r.keywords = search.keywords
             THEN [r EXCEPT !.active = TRUE, !.updated_at = now] ELSE r : r \in tbl}
    ELSE tbl \cup {SearchRow(search)}

\* INSERT OR REPLACE INTO product_searches, UNIQUE(chat_id, keywords)
DbAddSearch(tbl, search) ==
    {r \in tbl : ~(r.chat_id = search.chat_id /\ r.keywords = search.keywords)}
        \cup {SearchRow(search)}

\* DbDeactivateSearch as a bug would have it: the row is deleted
DbDeactivateSearch_Delete(tbl, chat_id, keywords) ==
    {r \in tbl : ~(r.chat_id = chat_id /\ r.keywords = keywords)}

\* UPDATE product_searches SET active = 0, updated_at = ?
\* WHERE chat_id = ? AND keywords = ?
DbDeactivateSearch(tbl, chat_id, keywords) ==
    {IF r.chat_id = chat_id /\ r.keywords = keywords
        THEN [r EXCEPT !.active = FALSE, !.updated_at = now] ELSE r : r \in tbl}

\* DbGetAllActiveSearches as a bug would have it: no WHERE clause, the
\* deactivated rows are read as well
DbGetAllActiveSearches_All(tbl) ==
    IF \A r \in tbl : ValidProductSearch(r.keywords, r.min_price, r.max_price)
    THEN {SearchOfRow(r) : r \in tbl} ELSE {}

\* SELECT * FROM product_searches WHERE active = 1, each row rebuilt as a
\* ProductSearch; a row that fails validation fails the whole read, which
\* then returns []
DbGetAllActiveSearches(tbl) ==
    LET rows == {r \in tbl : r.active}
    IN  IF \A r \in rows : ValidProductSearch(r.keywords, r.min_price, r.max_price)
        THEN {SearchOfRow(r) : r \in rows} ELSE {}

\* DbAddProduct as a bug would have it: the key is item_id alone
DbAddProduct_KeyItemOnly(tbl, product) ==
    {r \in tbl : r.item_id # product.item_id}
        \cup {[item_id |-> product.item_id, chat_id |-> product.chat_id,
               title |-> product.title, price |-> product.price,
               observations |-> product.observations,
               created_at |-> CurrentTimestamp, updated_at |-> now]}

\* INSERT OR REPLACE INTO products, PRIMARY KEY (item_id, chat_id);
\* created_at takes its default, updated_at is datetime.now()
DbAddProduct(tbl, product) ==
    {r \in tbl : ~(r.item_id = product.item_id /\ r.chat_id = product.chat_id)}
        \cup {[item_id |-> product.item_id, chat_id |-> product.chat_id,
               title |-> product.title, price |-> product.price,
               observations |-> product.observations,
               created_at |-> CurrentTimestamp, updated_at |-> now]}

\* SELECT * FROM products WHERE item_id = ? AND chat_id = ?
DbGetProduct(tbl, item_id, chat_id) ==
    {r \in tbl : r.item_id = item_id /\ r.chat_id = chat_id}

\* DbUpdateProductPrice as a bug would have it: the note is not written
DbUpdateProductPrice_NoNote(tbl, item_id, new_price, observations) ==
    {IF r.item_id = item_id
        THEN [r EXCEPT !.price = new_price, !.updated_at = now]
        ELSE r : r \in tbl}

\* UPDATE products SET price = ?, observations = ?, updated_at = ?
\* WHERE item_id = ?
DbUpdateProductPrice(tbl, item_id, new_price, observations) ==
    {IF r.item_id = item_id
        THEN [r EXCEPT !.price = new_price, !.observations = observations,
                       !.updated_at = now]
        ELSE r : r \in tbl}

\* DELETE FROM products WHERE created_at < datetime.now() - hours
DbCleanupOldProducts(tbl, hours) ==
    {r \in tbl : ~(r.created_at < now - hours)}

-----------------------------------------------------------------------------
(* src/notification_service.py: the gateway *)

\* CheckRateLimit as a bug would have it: the quota is off by one
CheckRateLimit_OffByOne(svc) ==
    LET expired == (now - last_reset[svc]) > RATE_WINDOW_HOURS
        cnt == IF expired THEN 0 ELSE notification_count[svc]
    IN  [count |-> cnt,
         reset |-> IF expired THEN now ELSE last_reset[svc],
         ok |-> ~(cnt > MAX_NOTIFICATIONS_PER_HOUR)]

\* CheckRateLimit as a bug would have it: the window already runs out at
\* 3600 s, not after
CheckRateLimit_ResetAtTheHour(svc) ==
    LET expired == (now - last_reset[svc]) >= RATE_WINDOW_HOURS
        cnt == IF expired THEN 0 ELSE notification_count[svc]
    IN  [count |-> cnt,
         reset |-> IF expired THEN now ELSE last_reset[svc],
         ok |-> ~(cnt >= MAX_NOTIFICATIONS_PER_HOUR)]

\* _check_rate_limit: the counter and window after the check, and its answer
CheckRateLimit(svc) ==
    LET expired == (now - last_reset[svc]) > RATE_WINDOW_HOURS
        cnt == IF expired THEN 0 ELSE notification_count[svc]
    IN  [count |-> cnt,
         reset |-> IF expired THEN now ELSE last_reset[svc],
         ok |-> ~(cnt >= MAX_NOTIFICATIONS_PER_HOUR)]

\* SendTelegramMessage as a bug would have it: the counter counts attempts
\* that reached the transport, not confirmed sends
SendTelegramMessage_CountsAttempts(svc, t) ==
    LET c == CheckRateLimit(svc)
    IN  IF ~c.ok
        THEN [count |-> c.count, reset |-> c.reset,
              outcome |-> "rate_limited", ret |-> FALSE, raised |-> FALSE]
        ELSE [count |-> c.count + 1, reset |-> c.reset, outcome |-> t,
              ret |-> t = "ok", raised |-> FALSE]

\* SendTelegramMessage as a bug would have it: no except clause around
\* requests.post, whose exception reaches the caller
SendTelegramMessage_Uncaught(svc, t) ==
    LET c == CheckRateLimit(svc)
    IN  IF ~c.ok
        THEN [count |-> c.count, reset |-> c.reset,
              outcome |-> "rate_limited", ret |-> FALSE, raised |-> FALSE]
        ELSE [count |-> IF t = "ok" THEN c.count + 1 ELSE c.count,
              reset |-> c.reset, outcome |-> t, ret |-> t = "ok",
              raised |-> t = "exception"]

\* _send_telegram_message, the transport answering t: what it returns (ret)
\* or that an exception leaves it (raised); the except clause around
\* requests.post turns every exception into the return value False
SendTelegramMessage(svc, t) ==
    LET c == CheckRateLimit(svc)
    IN  IF ~c.ok
        THEN [count |-> c.count, reset |-> c.reset,
              outcome |-> "rate_limited", ret |-> FALSE, raised |-> FALSE]
        ELSE [count |-> IF t = "ok" THEN c.count + 1 ELSE c.count,
              reset |-> c.reset, outcome |-> t, ret |-> t = "ok",
              raised |-> FALSE]

\* a message handed to the gateway, with what became of it
Message(svc, kind, chat_id, item_id, old_price, price, outcome) ==
    [svc |-> svc, kind |-> kind, chat_id |-> chat_id, item_id |-> item_id,
     old_price |-> old_price, price |-> price, outcome |-> outcome]

\* the gateway instance svc after a send that ended as s
GatewayBecomes(svc, s) ==
    /\ notification_count' = [notification_count EXCEPT ![svc] = s.count]
    /\ last_reset' = [last_reset EXCEPT ![svc] = s.reset]

-----------------------------------------------------------------------------
(* src/product_tracker.py: the tracking engine *)

\* what a step leaves in out: the operation, its arguments, what it returned
\* ("True", "False", "None" when it returns nothing, "raised" when an
\* exception left it) and the messages it handed to the gateway
Output(op, args, ret, msgs) ==
    [op |-> op, args |-> args, ret |-> ret, msgs |-> msgs]

\* the orders in which a SELECT may return the rows of S
Orders(S) ==
    {q \in [1..Cardinality(S) -> S] :
        \A i, j \in 1..Cardinality(S) : i # j => q[i] # q[j]}

\* the effect of a reconciliation that changes nothing
Untouched ==
    [products |-> products, count |-> notification_count["tracker"],
     reset |-> last_reset["tracker"], msgs |-> <<>>]

\* _handle_new_product; Product(...) raising is caught and logged
HandleNewProduct(result, chat_id, t) ==
    IF ~ValidProduct(result.title, result.price)
    THEN Untouched
    ELSE LET product == [item_id |-> result.id, chat_id |-> chat_id,
                         title |-> Strip(result.title), price |-> result.price,
                         observations |-> <<>>]
             s == SendTelegramMessage("tracker", t)
         IN  [products |-> DbAddProduct(products, product),
              count |-> s.count, reset |-> s.reset,
              msgs |-> <<Message("tracker", "new_product", chat_id, result.id,
                                 None, result.price, s.outcome)>>]

\* the test of _handle_existing_product, as a bug would have it: any lower
\* or equal price counts as a drop
PriceDropped_OrEqual(result, existing) == result.price <= existing.price

\* the test of _handle_existing_product: has the price gone down?
PriceDropped(result, existing) == result.price < existing.price

\* _handle_existing_product; Product(...) raising is caught and logged
HandleExistingProduct(result, existing, t) ==
    IF PriceDropped(result, existing)
    THEN IF ~ValidProduct(result.title, result.price)
         THEN Untouched
         ELSE LET s == SendTelegramMessage("tracker", t)
              IN  [products |->
                       DbUpdateProductPrice(products, result.id, result.price,
                           <<"Precio anterior", existing.price>>),
                   count |-> s.count, reset |-> s.reset,
                   msgs |-> <<Message("tracker", "price_drop",
                                      existing.chat_id, result.id,
                                      existing.price, result.price, s.outcome)>>]
    ELSE Untouched

\* _process_product_result
ProcessProductResult(result, chat_id, t) ==
    LET found == DbGetProduct(products, result.id, chat_id)
    IN  IF found = {}
        THEN HandleNewProduct(result, chat_id, t)
        ELSE HandleExistingProduct(result, CHOOSE r \in found : TRUE, t)

\* AddSearch as a bug would have it: the keywords are stored as they were
\* typed, the validator returning v and not v.strip()
AddSearch_AsTyped(chat_id, keywords, min_price, max_price, t) ==
        LET s == SendTelegramMessage("tracker", t)
            valid == ValidProductSearch(keywords, min_price, max_price)
            search == [chat_id |-> chat_id, keywords |-> keywords,
                       min_price |-> min_price, max_price |-> max_price,
                       active |-> TRUE]
        IN  /\ product_searches' =
                  IF valid THEN DbAddSearch(product_searches, search)
                           ELSE product_searches
            /\ GatewayBecomes("tracker", s)
            /\ out' = Output("add_search",
                             <<chat_id, keywords, min_price, max_price>>,
                             IF valid THEN "True" ELSE "False",
                             <<Message("tracker",
                                       IF valid THEN "search_added" ELSE "error",
                                       chat_id, "", None, None, s.outcome)>>)
            /\ UNCHANGED <<products, now, utc_offset, is_running,
                           search_thread, cleanup_jobs, pc, queue, results>>

\* ProductTracker.add_search
AddSearch(chat_id, keywords, min_price, max_price, t) ==
        LET s == SendTelegramMessage("tracker", t)
            valid == ValidProductSearch(keywords, min_price, max_price)
            search == [chat_id |-> chat_id, keywords |-> Strip(keywords),
                       min_price |-> min_price, max_price |-> max_price,
                       active |-> TRUE]
        IN  /\ product_searches' =
                  IF valid THEN DbAddSearch(product_searches, search)
                           ELSE product_searches
            /\ GatewayBecomes("tracker", s)
            /\ out' = Output("add_search",
                             <<chat_id, keywords, min_price, max_price>>,
                             IF valid THEN "True" ELSE "False",
                             <<Message("tracker",
                                       IF valid THEN "search_added" ELSE "error",
                                       chat_id, "", None, None, s.outcome)>>)
            /\ UNCHANGED <<products, now, utc_offset, is_running,
                           search_thread, cleanup_jobs, pc, queue, results>>

\* RemoveSearch as a bug would have it: the listings tracked for the chat go
\* with the search
RemoveSearch_Cascade(chat_id, keywords, t) ==
        LET s == SendTelegramMessage("tracker", t)
        IN  /\ product_searches' =
                  DbDeactivateSearch(product_searches, chat_id, keywords)
            /\ products' = {r \in products : r.chat_id # chat_id}
            /\ GatewayBecomes("tracker", s)
            /\ out' = Output("remove_search", <<chat_id, keywords>>, "True",
                             <<Message("tracker", "search_removed", chat_id, "",
                                       None, None, s.outcome)>>)
            /\ UNCHANGED <<now, utc_offset, is_running,
                           search_thread, cleanup_jobs, pc, queue, results>>

\* ProductTracker.remove_search
RemoveSearch(chat_id, keywords, t) ==
        LET s == SendTelegramMessage("tracker", t)
        IN  /\ product_searches' =
                  DbDeactivateSearch(product_searches, chat_id, keywords)
            /\ GatewayBecomes("tracker", s)
            /\ out' = Output("remove_search", <<chat_id, keywords>>, "True",
                             <<Message("tracker", "search_removed", chat_id, "",
                                       None, None, s.outcome)>>)
            /\ UNCHANGED <<products, now, utc_offset, is_running,
                           search_thread, cleanup_jobs, pc, queue, results>>

\* Start as a bug would have it: no test of is_running
Start_Unguarded ==
    /\ \E w \in Threads :
           /\ pc[w] = "none"
           /\ \A v \in Threads : v < w => pc[v] # "none"
           /\ is_running' = TRUE
           /\ search_thread' = w
           /\ pc' = [pc EXCEPT ![w] = "loop"]
           /\ cleanup_jobs' = cleanup_jobs + 1
    /\ out' = Output("start", <<>>, "None", <<>>)
    /\ UNCHANGED <<product_searches, products, notification_count, last_reset,
                   now, utc_offset, queue, results>>

\* ProductTracker.start
Start ==
    /\ IF is_running
       THEN UNCHANGED <<is_running, search_thread, cleanup_jobs, pc>>
       ELSE \E w \in Threads :
               /\ pc[w] = "none"
               /\ \A v \in Threads : v < w => pc[v] # "none"
               /\ is_running' = TRUE
               /\ search_thread' = w
               /\ pc' = [pc EXCEPT ![w] = "loop"]
               /\ cleanup_jobs' = cleanup_jobs + 1
    /\ out' = Output("start", <<>>, "None", <<>>)
    /\ UNCHANGED <<product_searches, products, notification_count, last_reset,
                   now, utc_offset, queue, results>>

\* ProductTracker.stop: the flag is cleared; join(timeout=5) returns whether
\* or not the worker has exited
Stop ==
    /\ is_running' = FALSE
    /\ out' = Output("stop", <<>>, "None", <<>>)
    /\ UNCHANGED <<product_searches, products, notification_count, last_reset,
                   now, utc_offset, search_thread, cleanup_jobs, pc, queue,
                   results>>

\* BeginCycle as a bug would have it: the loop is `while True`, the flag is
\* never read
BeginCycle_Unconditional(w) ==
    /\ pc[w] = "loop"
    /\ \E q \in Orders(DbGetAllActiveSearches(product_searches)) :
           /\ queue' = [queue EXCEPT ![w] = q]
           /\ pc' = [pc EXCEPT ![w] = "search"]
    /\ out' = Output("begin_cycle", <<>>, "None", <<>>)
    /\ UNCHANGED <<product_searches, products, notification_count, last_reset,
                   now, utc_offset, is_running, search_thread, cleanup_jobs,
                   results>>

\* _search_loop: the while test, then _process_all_searches up to its read
\* of the active searches
BeginCycle(w) ==
    /\ pc[w] = "loop"
    /\ IF is_running
       THEN \E q \in Orders(DbGetAllActiveSearches(product_searches)) :
               /\ queue' = [queue EXCEPT ![w] = q]
               /\ pc' = [pc EXCEPT ![w] = "search"]
       ELSE /\ pc' = [pc EXCEPT ![w] = "dead"]
            /\ UNCHANGED queue
    /\ out' = Output("begin_cycle", <<>>, "None", <<>>)
    /\ UNCHANGED <<product_searches, products, notification_count, last_reset,
                   now, utc_offset, is_running, search_thread, cleanup_jobs,
                   results>>

\* _process_search up to the adapter's answer, which is res
QuerySearch(w, res) ==
    /\ pc[w] = "search"
    /\ queue[w] # <<>>
    /\ results' = [results EXCEPT ![w] = res]
    /\ pc' = [pc EXCEPT ![w] = IF res = <<>> THEN "done" ELSE "result"]
    /\ out' = Output("query", <<>>, "None", <<>>)
    /\ UNCHANGED <<product_searches, products, notification_count, last_reset,
                   now, utc_offset, is_running, search_thread, cleanup_jobs,
                   queue>>

\* the body of the loop over search_results, for the result at its head
Reconcile(w, t) ==
    /\ pc[w] = "result"
    /\ LET e == ProcessProductResult(Head(results[w]),
                                     Head(queue[w]).chat_id, t)
       IN  /\ products' = e.products
           /\ notification_count' =
                  [notification_count EXCEPT !["tracker"] = e.count]
           /\ last_reset' = [last_reset EXCEPT !["tracker"] = e.reset]
           /\ out' = Output("reconcile", <<>>, "None", e.msgs)
    /\ pc' = [pc EXCEPT ![w] = "done"]
    /\ UNCHANGED <<product_searches, now, utc_offset, is_running,
                   search_thread, cleanup_jobs, queue, results>>

\* the loop over search_results moves to its next result or, at the end of
\* the list, _process_search returns and time.sleep(2) passes
Advance(w) ==
    /\ pc[w] = "done"
    /\ IF Len(results[w]) > 1
       THEN /\ results' = [results EXCEPT ![w] = Tail(results[w])]
            /\ pc' = [pc EXCEPT ![w] = "result"]
            /\ UNCHANGED queue
       ELSE /\ results' = [results EXCEPT ![w] = <<>>]
            /\ queue' = [queue EXCEPT ![w] = Tail(queue[w])]
            /\ pc' = [pc EXCEPT ![w] = "search"]
    /\ out' = Output("advance", <<>>, "None", <<>>)
    /\ UNCHANGED <<product_searches, products, notification_count, last_reset,
                   now, utc_offset, is_running, search_thread, cleanup_jobs>>

\* schedule.run_pending() at the end of a cycle, the daily job being due or
\* not, then the sleep until the next cycle
EndCycle(w, due) ==
    /\ pc[w] = "search"
    /\ queue[w] = <<>>
    /\ products' = IF due /\ cleanup_jobs > 0
                   THEN DbCleanupOldProducts(products, ITEM_CLEANUP_HOURS)
                   ELSE products
    /\ pc' = [pc EXCEPT ![w] = "loop"]
    /\ out' = Output("end_cycle", <<>>, "None", <<>>)
    /\ UNCHANGED <<product_searches, notification_count, last_reset, now,
                   utc_offset, is_running, search_thread, cleanup_jobs, queue,
                   results>>

\* where thread w is in its cycle, as the stage an exception would come from:
\* the read of the active searches, the adapter query, the reconciliation of
\* a result, or run_pending at the end of the cycle
Stage(w) ==
    IF pc[w] = "loop" THEN "fetch"
    ELSE IF pc[w] = "result" THEN "reconcile"
    ELSE IF queue[w] # <<>> THEN "query"
    ELSE "maintenance"

\* Caught as a bug would have it: no handler anywhere, the thread dies
Caught_Nowhere(w, at) ==
    [pc |-> "dead", queue |-> queue[w], results |-> results[w]]

\* Caught as a bug would have it: a failing query is caught only by the
\* handler around the whole of _process_all_searches, which ends the cycle
Caught_ByCycle(w, at) ==
    IF at = "fetch" THEN [pc |-> "search", queue |-> <<>>, results |-> <<>>]
    ELSE IF at = "query" THEN [pc |-> "search", queue |-> <<>>, results |-> <<>>]
    ELSE IF at = "reconcile"
         THEN [pc |-> "done", queue |-> queue[w], results |-> results[w]]
    ELSE [pc |-> "loop", queue |-> <<>>, results |-> <<>>]

\* Caught as a bug would have it: _search_loop has no handler of its own, an
\* exception that reaches it ends the thread
Caught_NoBackoff(w, at) ==
    IF at = "fetch" THEN [pc |-> "search", queue |-> <<>>, results |-> <<>>]
    ELSE IF at = "query"
         THEN [pc |-> "done", queue |-> queue[w], results |-> <<>>]
    ELSE IF at = "reconcile"
         THEN [pc |-> "done", queue |-> queue[w], results |-> results[w]]
    ELSE [pc |-> "dead", queue |-> <<>>, results |-> <<>>]

\* where thread w goes on after an exception at stage at, by the handler that
\* catches it: get_all_active_searches returns [] and the cycle has nothing
\* to process; _process_search logs and returns, the search counting for
\* nothing found; _process_product_result logs and returns, the loop over the
\* results going on; _search_loop logs, sleeps a minute and loops
Caught(w, at) ==
    IF at = "fetch" THEN [pc |-> "search", queue |-> <<>>, results |-> <<>>]
    ELSE IF at = "query"
         THEN [pc |-> "done", queue |-> queue[w], results |-> <<>>]
    ELSE IF at = "reconcile"
         THEN [pc |-> "done", queue |-> queue[w], results |-> results[w]]
    ELSE [pc |-> "loop", queue |-> <<>>, results |-> <<>>]

\* an exception at the stage at of thread w, before anything is written or
\* sent
Fails(w, at) ==
    /\ pc[w] \in {"loop", "search", "result"}
    /\ pc[w] = "loop" => is_running
    /\ at = Stage(w)
    /\ LET c == Caught(w, at)
       IN  /\ pc' = [pc EXCEPT ![w] = c.pc]
           /\ queue' = [queue EXCEPT ![w] = c.queue]
           /\ results' = [results EXCEPT ![w] = c.results]
    /\ out' = Output("failed", <<at>>, "None", <<>>)
    /\ UNCHANGED <<product_searches, products, notification_count, last_reset,
                   now, utc_offset, is_running, search_thread, cleanup_jobs>>

\* one call of _send_telegram_message on instance svc (every notify_* and
\* send_* method ends in one), the transport answering t
Send(svc, t) ==
    LET s == SendTelegramMessage(svc, t)
    IN  /\ GatewayBecomes(svc, s)
        /\ out' = Output("send", <<svc>>,
                         IF s.raised THEN "raised"
                         ELSE IF s.ret THEN "True" ELSE "False",
                         <<Message(svc, "text", "", "", None, None, s.outcome)>>)
        /\ UNCHANGED <<product_searches, products, now, utc_offset, is_running,
                       search_thread, cleanup_jobs, pc, queue, results>>

\* an hour passes
Tick ==
    /\ now < MaxTime
    /\ now' = now + 1
    /\ out' = Output("tick", <<>>, "None", <<>>)
    /\ UNCHANGED <<product_searches, products, notification_count, last_reset,
                   utc_offset, is_running, search_thread, cleanup_jobs, pc,
                   queue, results>>

-----------------------------------------------------------------------------
(* The process as main.py runs it *)

\* what the adapter can return for one listing; SearchResult validates price
Titles == {<<"t">>, <<" ">>}
Candidates ==
    {c \in [id : Items, title : Titles, price : Prices] :
        ValidSearchResult(c.price)}
ResultLists == UNION {[1..n -> Candidates] : n \in 0..MaxResults}

\* what users type
UserKeywords == {<<"a">>}

\* how the messaging channel answers
Transport == {"ok", "http_error"}

\* the state after ProductTrackingBot() is constructed
Init ==
    /\ product_searches = {}
    /\ products = {}
    /\ notification_count = [svc \in Services |-> 0]
    /\ last_reset = [svc \in Services |-> 0]
    /\ now = 0
    /\ utc_offset = 0
    /\ is_running = FALSE
    /\ search_thread = 0
    /\ cleanup_jobs = 0
    /\ pc = [w \in Threads |-> "none"]
    /\ queue = [w \in Threads |-> <<>>]
    /\ results = [w \in Threads |-> <<>>]
    /\ out = Output("init", <<>>, "None", <<>>)
    /\ first_seen = [k \in Chats \X Items |-> None]
    /\ lifecycle = [k \in Chats \X UserKeywords |-> "new"]
    /\ confirmed = [svc \in Services |-> 0]
    /\ told = [k \in Chats \X Items |-> None]
    /\ sending = [c \in Callers |-> [at |-> "idle", seen |-> 0]]

\* the history variables stay as they are, and no thread is part-way through
\* _send_telegram_message
Quiet == UNCHANGED <<first_seen, lifecycle, confirmed, told, sending>>

\* main.py starts the engine once; users add and remove searches while the
\* worker polls; the run lasts less than an hour
Next ==
    \/ search_thread = 0 /\ Start /\ Quiet
    \/ \E c \in Chats, k \in UserKeywords, t \in Transport :
           AddSearch(c, k, None, None, t) /\ Quiet
    \/ \E c \in Chats, k \in UserKeywords, t \in Transport :
           RemoveSearch(c, k, t) /\ Quiet
    \/ \E w \in Threads : BeginCycle(w) /\ Quiet
    \/ \E w \in Threads, res \in ResultLists : QuerySearch(w, res) /\ Quiet
    \/ \E w \in Threads, t \in Transport : Reconcile(w, t) /\ Quiet
    \/ \E w \in Threads : Advance(w) /\ Quiet
    \/ \E w \in Threads, due \in BOOLEAN : EndCycle(w, due) /\ Quiet

Spec == Init /\ [][Next]_vars

-----------------------------------------------------------------------------
(* Reconciliation *)

\* the rows of listing item_id tracked for chat_id
Tracked(item_id, chat_id) == DbGetProduct(products, item_id, chat_id)
TrackedAfter(item_id, chat_id) == DbGetProduct(products', item_id, chat_id)

\* thread w reconciles candidate c for chat_id in this step
Reconciles(w, c, chat_id) ==
    /\ pc[w] = "result"
    /\ c = Head(results[w])
    /\ chat_id = Head(queue[w]).chat_id
    /\ \E t \in TransportOutcomes : Reconcile(w, t)

\* thread w has just reconciled candidate c for chat_id
Reconciled(w, c, chat_id) ==
    /\ pc[w] = "done"
    /\ out.op = "reconcile"
    /\ results[w] # <<>>
    /\ c = Head(results[w])
    /\ chat_id = Head(queue[w]).chat_id

\* the messages a send of one message may leave in out
Sent(kind, chat_id, item_id, old_price, price) ==
    {<<Message("tracker", kind, chat_id, item_id, old_price, price, o)>> :
        o \in TransportOutcomes \cup {"rate_limited"}}

\* history: a reconciliation that creates the row of (chat, listing) records
\* the price the row was created at
Remember(w) ==
    LET c == Head(results[w])
        s == Head(queue[w]).chat_id
    IN  /\ UNCHANGED <<lifecycle, confirmed, told, sending>>
        /\ first_seen' =
            IF Tracked(c.id, s) = {} /\ TrackedAfter(c.id, s) # {}
            THEN [first_seen EXCEPT ![<<s, c.id>>] = c.price]
            ELSE first_seen

\* history: a retention sweep that runs ends every "no sweep in between"
Forget(due) ==
    /\ UNCHANGED <<lifecycle, confirmed, told, sending>>
    /\ first_seen' = IF due /\ cleanup_jobs > 0
                     THEN [k \in Chats \X Items |-> None]
                     ELSE first_seen

\* the process of Spec, with the history of first sightings kept
NextHistory ==
    \/ search_thread = 0 /\ Start /\ Quiet
    \/ \E c \in Chats, k \in UserKeywords, t \in Transport :
           AddSearch(c, k, None, None, t) /\ Quiet
    \/ \E c \in Chats, k \in UserKeywords, t \in Transport :
           RemoveSearch(c, k, t) /\ Quiet
    \/ \E w \in Threads : BeginCycle(w) /\ Quiet
    \/ \E w \in Threads, res \in ResultLists : QuerySearch(w, res) /\ Quiet
    \/ \E w \in Threads, t \in Transport : Reconcile(w, t) /\ Remember(w)
    \/ \E w \in Threads : Advance(w) /\ Quiet
    \/ \E w \in Threads, due \in BOOLEAN : EndCycle(w, due) /\ Forget(due)

SpecHistory == Init /\ [][NextHistory]_vars

\* C1: reconciling a candidate (of non-blank title) that chat s does not track
\* yet leaves a row (id, s) carrying the candidate's price and hands the
\* gateway exactly one new_product message; reconciling the listing again for
\* s at the price it was first seen at, with no sweep in between, hands the
\* gateway nothing
C1_NewListing ==
    [][\A w \in Threads, c \in Candidates, s \in Chats :
          (Reconciles(w, c, s) /\ Strip(c.title) # <<>>)
          => /\ Tracked(c.id, s) = {}
                => /\ \E r \in TrackedAfter(c.id, s) : r.price = c.price
                   /\ out'.msgs \in Sent("new_product", s, c.id, None, c.price)
             /\ first_seen[<<s, c.id>>] = c.price => out'.msgs = <<>>
      ]_vars

\* C3: reconciling a candidate whose price is equal to or higher than the
\* stored price of its tracked row leaves the products table unchanged and
\* hands no message to the gateway
C3_NoDropNoChange ==
    [][\A w \in Threads, c \in Candidates, s \in Chats :
          (/\ Reconciles(w, c, s)
           /\ \E r \in Tracked(c.id, s) : c.price >= r.price)
          => (products' = products /\ out'.msgs = <<>>)]_vars

C3_Witness ==
    \E w \in Threads, c \in Candidates, s \in Chats :
        /\ Reconciled(w, c, s)
        /\ \E r \in Tracked(c.id, s) : c.price > r.price
        /\ out.msgs = <<>>

\* the row r after a drop of its price to new_price
Dropped(r, new_price) ==
    [r EXCEPT !.price = new_price,
              !.observations = <<"Precio anterior", r.price>>,
              !.updated_at = now]

\* C2 as claimed: reconciling a candidate cheaper than the stored price P of
\* its tracked row sets the stored price to the candidate's, notes P as the
\* observation and hands the gateway exactly one price_drop message carrying
\* P and the new price
C2_AnyCandidate ==
    [][\A w \in Threads, c \in Candidates, s \in Chats :
          \A r \in Tracked(c.id, s) :
              (Reconciles(w, c, s) /\ c.price < r.price)
              => /\ TrackedAfter(c.id, s) = {Dropped(r, c.price)}
                 /\ out'.msgs \in Sent("price_drop", s, c.id, r.price, c.price)
      ]_vars

\* C2 as amended: the same, for a candidate whose title is not blank
C2_PriceDrop ==
    [][\A w \in Threads, c \in Candidates, s \in Chats :
          \A r \in Tracked(c.id, s) :
              (/\ Reconciles(w, c, s)
               /\ c.price < r.price
               /\ Strip(c.title) # <<>>)
              => /\ TrackedAfter(c.id, s) = {Dropped(r, c.price)}
                 /\ out'.msgs \in Sent("price_drop", s, c.id, r.price, c.price)
      ]_vars

C2_Witness ==
    \E w \in Threads, c \in Candidates, s \in Chats, p \in Prices :
        /\ Reconciled(w, c, s)
        /\ out.msgs \in Sent("price_drop", s, c.id, p, c.price)
        /\ c.price < p
        /\ \E r \in Tracked(c.id, s) :
               r.price = c.price /\ r.observations = <<"Precio anterior", p>>

\* the row a new listing leaves in the table
NewRow(c, chat_id) ==
    [item_id |-> c.id, chat_id |-> chat_id, title |-> Strip(c.title),
     price |-> c.price, observations |-> <<>>,
     created_at |-> CurrentTimestamp, updated_at |-> now]

\* C4 as claimed: reconciling a listing that chat s does not track yet adds
\* the row (id, s), hands the gateway one new_product message addressed to s,
\* and leaves the rows of the same listing under every other chat in place
C4_AnyCandidate ==
    [][\A w \in Threads, c \in Candidates, s \in Chats :
          (Reconciles(w, c, s) /\ Tracked(c.id, s) = {})
          => /\ TrackedAfter(c.id, s) = {NewRow(c, s)}
             /\ \A s2 \in Chats \ {s} :
                    TrackedAfter(c.id, s2) = Tracked(c.id, s2)
             /\ out'.msgs \in Sent("new_product", s, c.id, None, c.price)
      ]_vars

\* C4 as amended: the same, for a candidate whose title is not blank
C4_ScopeIsolation ==
    [][\A w \in Threads, c \in Candidates, s \in Chats :
          (/\ Reconciles(w, c, s)
           /\ Tracked(c.id, s) = {}
           /\ Strip(c.title) # <<>>)
          => /\ TrackedAfter(c.id, s) = {NewRow(c, s)}
             /\ \A s2 \in Chats \ {s} :
                    TrackedAfter(c.id, s2) = Tracked(c.id, s2)
             /\ out'.msgs \in Sent("new_product", s, c.id, None, c.price)
      ]_vars

\* the second of two chats has just discovered a listing the first tracks
C4_Witness ==
    \E w \in Threads, c \in Candidates, s \in Chats, s2 \in Chats :
        /\ s2 # s
        /\ Reconciled(w, c, s)
        /\ out.msgs \in Sent("new_product", s, c.id, None, c.price)
        /\ Tracked(c.id, s) # {}
        /\ Tracked(c.id, s2) # {}

\* C5: a reconciliation for chat s changes no row other than (candidate.id, s)
C5_OtherRowsKept ==
    [][\A w \in Threads, c \in Candidates, s \in Chats :
          Reconciles(w, c, s)
          => \A r \in products :
                 ~(r.item_id = c.id /\ r.chat_id = s) => r \in products'
      ]_vars

\* C9: remove_search(S, K) is a soft delete: of the fields of a search only
\* the active flag of the rows (S, K) changes, to false; these rows stay in
\* the table, every other search row is exactly as it was, and the products
\* table is untouched
C9_SoftDelete ==
    [][\A s \in Chats, k \in UserKeywords, t \in TransportOutcomes :
          RemoveSearch(s, k, t)
          => /\ products' = products
             /\ {SearchOfRow(r) : r \in product_searches'} =
                    {IF r.chat_id = s /\ r.keywords = k
                        THEN [SearchOfRow(r) EXCEPT !.active = FALSE]
                        ELSE SearchOfRow(r) : r \in product_searches}
             /\ Cardinality(product_searches') = Cardinality(product_searches)
             /\ \A r \in product_searches :
                    ~(r.chat_id = s /\ r.keywords = k) => r \in product_searches'
      ]_vars

\* an active search has just been removed while listings are tracked
C9_Witness ==
    /\ out.op = "remove_search"
    /\ products # {}
    /\ \E r \in product_searches :
           /\ r.chat_id = out.args[1]
           /\ r.keywords = out.args[2]
           /\ ~r.active
    /\ \E r \in product_searches : r.active

-----------------------------------------------------------------------------
(* The search registry under the commands of users *)

\* what a caller can pass as keywords: empty, blank, plain, padded
TypedKeywords == {<<>>, <<" ">>, <<"a">>, <<" ", "a">>}

\* what a caller can pass as a price bound
PriceBounds == {None} \cup 0..MaxBound

\* history: add_search on (chat, keywords) moves a search that was never
\* there to "added", and a removed one, re-added with the parameters of its
\* row, to "readded"
NoteAdd(chat_id, keywords, min_price, max_price) ==
    LET k == <<chat_id, Strip(keywords)>>
    IN  /\ UNCHANGED <<first_seen, confirmed, told, sending>>
        /\ lifecycle' =
               IF ValidProductSearch(keywords, min_price, max_price)
                  /\ k \in DOMAIN lifecycle
               THEN [lifecycle EXCEPT ![k] =
                        IF @ = "removed"
                           /\ \E r \in product_searches :
                                  /\ r.chat_id = k[1] /\ r.keywords = k[2]
                                  /\ r.min_price = min_price
                                  /\ r.max_price = max_price
                        THEN "readded"
                        ELSE IF @ = "readded" THEN @ ELSE "added"]
               ELSE lifecycle

\* history: remove_search on a search that is there moves it to "removed"
NoteRemove(chat_id, keywords) ==
    LET k == <<chat_id, keywords>>
    IN  /\ UNCHANGED <<first_seen, confirmed, told, sending>>
        /\ lifecycle' =
               IF k \in DOMAIN lifecycle /\ lifecycle[k] \in {"added", "readded"}
               THEN [lifecycle EXCEPT ![k] = "removed"]
               ELSE lifecycle

\* callers add and remove searches, with every kind of argument; the channel
\* answers until the quota of the hour is used up
NextRegistry ==
    \/ \E c \in Chats, k \in TypedKeywords, mn \in PriceBounds,
          mx \in PriceBounds :
           AddSearch(c, k, mn, mx, "ok") /\ NoteAdd(c, k, mn, mx)
    \/ \E c \in Chats, k \in TypedKeywords :
           RemoveSearch(c, k, "ok") /\ NoteRemove(c, k)

SpecRegistry == Init /\ [][NextRegistry]_vars

\* C6: add_search with keywords that are blank once trimmed, or with both
\* bounds given and min_price >= max_price, returns False and leaves the
\* product_searches table as it was
C6_RejectedBeforePersistence ==
    [][\A c \in Chats, k \in TypedKeywords, mn \in PriceBounds,
          mx \in PriceBounds :
          (/\ out'.op = "add_search"
           /\ out'.args = <<c, k, mn, mx>>
           /\ \E t \in TransportOutcomes : AddSearch(c, k, mn, mx, t)
           /\ \/ Strip(k) = <<>>
              \/ mn # None /\ mx # None /\ mn >= mx)
          => (out'.ret = "False" /\ product_searches' = product_searches)
      ]_vars

\* an add_search with equal bounds has just been refused, the registry
\* holding searches
C6_Witness ==
    /\ out.op = "add_search"
    /\ out.ret = "False"
    /\ Strip(out.args[2]) # <<>>
    /\ out.args[3] # None
    /\ out.args[3] = out.args[4]
    /\ product_searches # {}

\* C7: the product_searches table never holds two rows of one
\* (chat_id, keywords) pair
C7_OneRowPerKey ==
    \A r1, r2 \in product_searches :
        (r1.chat_id = r2.chat_id /\ r1.keywords = r2.keywords) => r1 = r2

\* a search that was added and removed has just been added again, another
\* chat holding a search of the same keywords
C7_Witness ==
    /\ out.op = "add_search"
    /\ out.ret = "True"
    /\ lifecycle[<<out.args[1], Strip(out.args[2])>>] = "readded"
    /\ Cardinality(product_searches) = Cardinality(Chats)

-----------------------------------------------------------------------------
(* Removing a search and adding it again *)

\* the process of Spec, with the history of each search kept
NextReadd ==
    \/ search_thread = 0 /\ Start /\ Quiet
    \/ \E c \in Chats, k \in UserKeywords, t \in Transport :
           AddSearch(c, k, None, None, t) /\ NoteAdd(c, k, None, None)
    \/ \E c \in Chats, k \in UserKeywords, t \in Transport :
           RemoveSearch(c, k, t) /\ NoteRemove(c, k)
    \/ \E w \in Threads : BeginCycle(w) /\ Quiet
    \/ \E w \in Threads, res \in ResultLists : QuerySearch(w, res) /\ Quiet
    \/ \E w \in Threads, t \in Transport : Reconcile(w, t) /\ Quiet
    \/ \E w \in Threads : Advance(w) /\ Quiet
    \/ \E w \in Threads, due \in BOOLEAN : EndCycle(w, due) /\ Quiet

SpecReadd == Init /\ [][NextReadd]_vars

\* the rows of the search (chat_id, keywords)
SearchRows(tbl, chat_id, keywords) ==
    {r \in tbl : r.chat_id = chat_id /\ r.keywords = keywords}

\* C8: adding a removed search again with the parameters of its row leaves
\* exactly one row (S, K), active and with these parameters; and once a
\* search of S has been re-added, reconciling a listing that has a row under
\* S hands the gateway no new_product message
C8_IdempotentReadd ==
    [][/\ \A s \in Chats, k \in UserKeywords :
              (/\ lifecycle[<<s, k>>] = "removed"
               /\ \E t \in TransportOutcomes : AddSearch(s, k, None, None, t))
              => \E r \in product_searches' :
                     /\ SearchRows(product_searches', s, k) = {r}
                     /\ r.active
                     /\ \A q \in SearchRows(product_searches, s, k) :
                            SearchOfRow(r) = [SearchOfRow(q) EXCEPT !.active = TRUE]
       /\ \A w \in Threads, c \in Candidates, s \in Chats :
              (/\ Reconciles(w, c, s)
               /\ \E k \in UserKeywords : lifecycle[<<s, k>>] = "readded"
               /\ Tracked(c.id, s) # {})
              => \A i \in 1..Len(out'.msgs) : out'.msgs[i].kind # "new_product"
      ]_vars

\* after a search was removed and added again, the worker has just reconciled,
\* with no message, a listing tracked under its chat
C8_Witness ==
    \E w \in Threads, c \in Candidates, s \in Chats :
        /\ Reconciled(w, c, s)
        /\ \E k \in UserKeywords :
               /\ lifecycle[<<s, k>>] = "readded"
               /\ \E r \in product_searches :
                      SearchRows(product_searches, s, k) = {r} /\ r.active
        /\ Tracked(c.id, s) # {}
        /\ out.msgs = <<>>

-----------------------------------------------------------------------------
(* The gateway under load *)

\* history: the sends of instance svc confirmed since its window was reset
NoteSend(svc) ==
    /\ UNCHANGED <<first_seen, lifecycle, told, sending>>
    /\ confirmed' =
           [confirmed EXCEPT ![svc] =
               (IF last_reset'[svc] # last_reset[svc] THEN 0 ELSE @)
               + (IF out'.ret = "True" THEN 1 ELSE 0)]

\* both instances send while the hours pass
NextGateway ==
    \/ \E svc \in Services, t \in TransportOutcomes : Send(svc, t) /\ NoteSend(svc)
    \/ Tick /\ Quiet

SpecGateway == Init /\ [][NextGateway]_vars

\* the window of instance svc has run out: its next send resets it
WindowExpired(svc) == (now - last_reset[svc]) > RATE_WINDOW_HOURS

\* C10: once MAX_NOTIFICATIONS_PER_HOUR sends of an instance have been
\* confirmed since its window was reset, every send on it before the window
\* resets returns False, does not reach the transport and leaves the counter
\* as it is
C10_RateLimit ==
    [][\A svc \in Services, t \in TransportOutcomes :
          (/\ Send(svc, t)
           /\ confirmed[svc] >= MAX_NOTIFICATIONS_PER_HOUR
           /\ ~WindowExpired(svc))
          => /\ out'.ret = "False"
             /\ out'.msgs[1].outcome = "rate_limited"
             /\ notification_count' = notification_count
             /\ last_reset' = last_reset
      ]_vars

\* a send has just been refused in a window in which the quota was used up,
\* the transport being ready to answer
C10_Witness ==
    \E svc \in Services :
        /\ out.op = "send"
        /\ out.args = <<svc>>
        /\ out.ret = "False"
        /\ out.msgs[1].outcome = "rate_limited"
        /\ confirmed[svc] = MAX_NOTIFICATIONS_PER_HOUR
        /\ notification_count[svc] = MAX_NOTIFICATIONS_PER_HOUR
        /\ ~WindowExpired(svc)
        /\ last_reset[svc] > 0

\* the sends the process has had confirmed, over all its instances, since
\* their windows were reset
ConfirmedByProcess ==
    confirmed["tracker"] + confirmed["bot"]

\* C11: the quota is one budget of the process: as long as no window has been
\* reset since construction, the sends confirmed by the process, whichever
\* instance made them, do not exceed MAX_NOTIFICATIONS_PER_HOUR
C11_ProcessWideQuota ==
    (\A svc \in Services : last_reset[svc] = 0)
        => ConfirmedByProcess <= MAX_NOTIFICATIONS_PER_HOUR

\* C12: a send never raises: whatever the transport does and whatever the
\* rate-limit check answers, it returns True or False, and True only when the
\* check passed and the transport answered with status 200
C12_SendNeverRaises ==
    [][\A svc \in Services, t \in TransportOutcomes :
          Send(svc, t)
          => /\ out'.ret \in {"True", "False"}
             /\ out'.ret = "True" => (t = "ok" /\ CheckRateLimit(svc).ok)
      ]_vars

\* a send whose transport raised an exception has just returned False
C12_Witness ==
    /\ out.op = "send"
    /\ out.msgs[1].outcome = "exception"
    /\ out.ret = "False"

-----------------------------------------------------------------------------
(* The engine started and stopped *)

\* what the adapter returns while the engine is started and stopped: nothing,
\* or one listing that never changes
SteadyResults == {<<>>, <<[id |-> "i1", title |-> <<"t">>, price |-> 1]>>}

\* the owner of the engine starts and stops it at any time, while users add
\* searches and the workers poll
NextLifecycle ==
    \/ Start /\ Quiet
    \/ Stop /\ Quiet
    \/ \E c \in Chats, k \in UserKeywords :
           AddSearch(c, k, None, None, "ok") /\ Quiet
    \/ \E w \in Threads : BeginCycle(w) /\ Quiet
    \/ \E w \in Threads, res \in SteadyResults : QuerySearch(w, res) /\ Quiet
    \/ \E w \in Threads : Reconcile(w, "ok") /\ Quiet
    \/ \E w \in Threads : Advance(w) /\ Quiet
    \/ \E w \in Threads, due \in BOOLEAN : EndCycle(w, due) /\ Quiet

SpecLifecycle == Init /\ [][NextLifecycle]_vars

\* C13: start() called while the engine is running spawns no worker and
\* leaves the running flag, the worker and the scheduled jobs as they are
C13_StartIdempotent ==
    [][(is_running /\ Start)
          => UNCHANGED <<is_running, search_thread, pc, queue, results,
                         cleanup_jobs>>
      ]_vars

\* start() has just returned on a running engine whose only worker is in the
\* middle of a cycle
C13_Witness ==
    /\ out.op = "start"
    /\ is_running
    /\ search_thread = 1
    /\ pc[1] \in {"search", "result", "done"}
    /\ \A w \in Threads \ {1} : pc[w] = "none"

-----------------------------------------------------------------------------
(* The worker under failures *)

\* what the adapter returns while failures are studied: nothing, one listing,
\* or two sightings of it in one list
SiblingResults ==
    {<<>>,
     <<[id |-> "i1", title |-> <<"t">>, price |-> 2]>>,
     <<[id |-> "i1", title |-> <<"t">>, price |-> 2],
       [id |-> "i1", title |-> <<"t">>, price |-> 1]>>}

\* a step of the worker thread w, failing or not
WorkerStep(w) ==
    \/ BeginCycle(w) /\ Quiet
    \/ \E res \in SiblingResults : QuerySearch(w, res) /\ Quiet
    \/ Reconcile(w, "ok") /\ Quiet
    \/ Advance(w) /\ Quiet
    \/ \E due \in BOOLEAN : EndCycle(w, due) /\ Quiet
    \/ Fails(w, "fetch") /\ Quiet
    \/ Fails(w, "query") /\ Quiet
    \/ Fails(w, "reconcile") /\ Quiet
    \/ Fails(w, "maintenance") /\ Quiet

\* the engine is started once and stopped at some time; users add searches;
\* any stage of a cycle may fail
NextFault ==
    \/ search_thread = 0 /\ Start /\ Quiet
    \/ Stop /\ Quiet
    \/ \E c \in Chats, k \in UserKeywords :
           AddSearch(c, k, None, None, "ok") /\ Quiet
    \/ \E w \in Threads : WorkerStep(w)

SpecFault == Init /\ [][NextFault]_vars

\* the same, the scheduler letting every thread that can step do so
SpecFaultFair == SpecFault /\ \A w \in Threads : WF_vars(WorkerStep(w))

Alive(w) == pc[w] \in {"loop", "search", "result", "done"}

\* C14: no failure inside a cycle ends the worker. A step on which fetching,
\* querying, reconciling or maintenance raises leaves the thread alive; a
\* thread ends only at the top of its loop with the running flag cleared, and
\* the flag is cleared by stop() alone; and a live thread that is inside a
\* cycle always comes back to the top of its loop, where the next cycle begins
\* unless stop() was called.
C14_WorkerSurvives ==
    /\ [][/\ \A w \in Threads :
                (Alive(w) /\ pc'[w] = "dead")
                    => (pc[w] = "loop" /\ ~is_running /\ out'.op = "begin_cycle")
          /\ out'.op = "failed" => \A w \in Threads : Alive(w) => Alive(w)'
          /\ (is_running /\ ~is_running') => out'.op = "stop"
         ]_vars
    /\ \A w \in Threads :
           (pc[w] \in {"search", "result", "done"}) ~> (pc[w] = "loop")

C14_Witness ==
    /\ out.op = "failed"
    /\ out.args = <<"maintenance">>
    /\ is_running
    /\ pc[1] = "loop"
    /\ product_searches # {}

\* C15: stop() returns with the flag cleared whatever the worker is doing,
\* leaving the worker where it is; while the flag stays clear no thread at the
\* top of its loop enters a cycle; and once the flag is clear every worker
\* terminates unless start() is issued again.
C15_StopTerminates ==
    /\ [][/\ out'.op = "stop" => (~is_running' /\ UNCHANGED pc)
          /\ (~is_running /\ ~is_running')
                 => \A w \in Threads :
                        pc[w] = "loop" => pc'[w] \in {"loop", "dead"}
         ]_vars
    /\ []ENABLED Stop
    /\ (~is_running) ~> (is_running \/ \A w \in Threads : ~Alive(w))

\* stop() has returned while the worker was in the middle of a cycle
C15_Witness ==
    /\ out.op = "stop"
    /\ ~is_running
    /\ search_thread = 1
    /\ pc[1] = "result"

\* the search of chat c waits in the cycle of thread w behind another search
Waits(w, c) == \E i \in 2..Len(queue[w]) : queue[w][i].chat_id = c

\* the search of chat c is the one thread w has put to the adapter
Queried(w, c) ==
    /\ pc[w] \in {"result", "done"}
    /\ queue[w] # <<>>
    /\ Head(queue[w]).chat_id = c

\* C16: a failing search does not abort the cycle. The list a cycle fetched
\* loses a search only from its head, once that search is done with; a step on
\* which the query or the reconciliation raises leaves the list as it is and
\* the search done with; and every search waiting in the list comes to be put
\* to the adapter in that cycle.
C16_PerSearchIsolation ==
    /\ [][\A w \in Threads :
              /\ (pc[w] # "loop" /\ queue'[w] # queue[w])
                     => /\ pc[w] = "done"
                        /\ Len(results[w]) <= 1
                        /\ queue'[w] = Tail(queue[w])
              /\ (out'.op = "failed" /\ pc[w] # pc'[w]
                      /\ out'.args[1] \in {"query", "reconcile"})
                     => (queue'[w] = queue[w] /\ pc'[w] = "done")
         ]_vars
    /\ \A w \in Threads, c \in Chats : Waits(w, c) ~> Queried(w, c)

\* the query of the first of two searches has failed and the second is still
\* in the cycle's list
C16_Witness ==
    /\ out.op = "failed"
    /\ out.args = <<"query">>
    /\ pc[1] = "done"
    /\ Len(queue[1]) = 2
    /\ Waits(1, queue[1][2].chat_id)

-----------------------------------------------------------------------------
(* The adapter's reading of a response *)

\* what an entry of search_objects can look like: complete; without one of
\* the keys read; with a price that is text and no number; with null for its
\* price (or for its user)
Shapes == {"complete", "no_key", "text_price", "null_price"}
RawItems == [id : Items, title : {<<"t">>}, price : 0..1, shape : Shapes]
MaxObjects == 2
SearchObjects == UNION {[1..n -> RawItems] : n \in 0..MaxObjects}

\* the exception the construction of a SearchResult from item raises, "none"
\* if it raises none: item[...] of a missing key is a KeyError, float() of
\* text a ValueError, float(None) and None['id'] a TypeError, and a price
\* that is not positive a ValidationError, which is a ValueError
ItemError(item) ==
    IF item.shape = "no_key" THEN "KeyError"
    ELSE IF item.shape = "text_price" THEN "ValueError"
    ELSE IF item.shape = "null_price" THEN "TypeError"
    ELSE IF ~ValidSearchResult(item.price) THEN "ValueError"
    ELSE "none"

\* the SearchResult built from a complete item
SearchResultOf(item) == [id |-> item.id, title |-> item.title, price |-> item.price]

\* the loop over search_objects: except (KeyError, ValueError) skips the
\* item; any other exception leaves the loop for the handler around the
\* parsing, and the results gathered so far are what is returned
RECURSIVE ParseSearchObjects(_)
ParseSearchObjects(items) ==
    IF items = <<>> THEN <<>>
    ELSE LET e == ItemError(Head(items))
         IN  IF e = "none"
             THEN <<SearchResultOf(Head(items))>> \o ParseSearchObjects(Tail(items))
             ELSE IF e \in {"KeyError", "ValueError"}
             THEN ParseSearchObjects(Tail(items))
             ELSE <<>>

\* _process_search up to the adapter's answer, the marketplace having
\* answered with items
QueryAdapter(w, items) == QuerySearch(w, ParseSearchObjects(items))

NextAdapter ==
    \/ search_thread = 0 /\ Start /\ Quiet
    \/ \E c \in Chats, k \in UserKeywords :
           AddSearch(c, k, None, None, "ok") /\ Quiet
    \/ \E w \in Threads : BeginCycle(w) /\ Quiet
    \/ \E w \in Threads, items \in SearchObjects : QueryAdapter(w, items) /\ Quiet
    \/ \E w \in Threads : Reconcile(w, "ok") /\ Quiet
    \/ \E w \in Threads : Advance(w) /\ Quiet
    \/ \E w \in Threads, due \in BOOLEAN : EndCycle(w, due) /\ Quiet
    \/ \E w \in Threads : Fails(w, "reconcile") /\ Quiet

SpecAdapter == Init /\ [][NextAdapter]_vars

\* the results of thread w still to be reconciled hold the listing of item
Pending(w, item) ==
    \E i \in 1..Len(results[w]) : results[w][i] = SearchResultOf(item)

\* C17: a candidate that cannot be processed does not cost its siblings their
\* reconciliation. Every complete item of a response is among the results to
\* reconcile, whatever the other items of the response look like; and a
\* reconciliation that raises leaves the rest of the results to be reconciled.
C17_PerListingIsolation ==
    [][\A w \in Threads :
          /\ \A items \in SearchObjects :
                 QueryAdapter(w, items)
                     => \A i \in 1..Len(items) :
                            ItemError(items[i]) = "none" => Pending(w, items[i])'
          /\ Fails(w, "reconcile") => results'[w] = results[w]
      ]_vars

-----------------------------------------------------------------------------
(* Retention *)

\* the hours the host's local time is ahead of UTC
MaxOffset == 1
Offsets == (0 - MaxOffset)..MaxOffset

\* the state after construction on a host of any time zone
InitRetention ==
    /\ product_searches = {}
    /\ products = {}
    /\ notification_count = [svc \in Services |-> 0]
    /\ last_reset = [svc \in Services |-> 0]
    /\ now = 0
    /\ utc_offset \in Offsets
    /\ is_running = FALSE
    /\ search_thread = 0
    /\ cleanup_jobs = 0
    /\ pc = [w \in Threads |-> "none"]
    /\ queue = [w \in Threads |-> <<>>]
    /\ results = [w \in Threads |-> <<>>]
    /\ out = Output("init", <<>>, "None", <<>>)
    /\ first_seen = [k \in Chats \X Items |-> None]
    /\ lifecycle = [k \in Chats \X UserKeywords |-> "new"]
    /\ confirmed = [svc \in Services |-> 0]
    /\ told = [k \in Chats \X Items |-> None]
    /\ sending = [c \in Callers |-> [at |-> "idle", seen |-> 0]]

\* the engine runs while the hours pass
NextRetention ==
    \/ search_thread = 0 /\ Start /\ Quiet
    \/ \E c \in Chats, k \in UserKeywords :
           AddSearch(c, k, None, None, "ok") /\ Quiet
    \/ \E w \in Threads : BeginCycle(w) /\ Quiet
    \/ \E w \in Threads, res \in SteadyResults : QuerySearch(w, res) /\ Quiet
    \/ \E w \in Threads : Reconcile(w, "ok") /\ Quiet
    \/ \E w \in Threads : Advance(w) /\ Quiet
    \/ \E w \in Threads, due \in BOOLEAN : EndCycle(w, due) /\ Quiet
    \/ Tick /\ Quiet

SpecRetention == InitRetention /\ [][NextRetention]_vars

\* the hours since the row r was created
Age(r) == CurrentTimestamp - r.created_at

\* C18: a sweep with horizon ITEM_CLEANUP_HOURS deletes exactly the rows that
\* are older than the horizon: after it every row created longer ago is gone
\* and every other row is there as it was, whatever its scope.
C18_Retention ==
    [][\A w \in Threads :
          (EndCycle(w, TRUE) /\ cleanup_jobs > 0)
              => products' = {r \in products : ~(Age(r) > ITEM_CLEANUP_HOURS)}
      ]_vars

-----------------------------------------------------------------------------
(* The rows of the listing store *)

-----------------------------------------------------------------------------
(* Adding a search that is already there *)

\* history: the last accepted add_search on (chat, keywords) found a row of
\* other price bounds ("changed") or did not ("added")
NoteUpsert(chat_id, keywords, min_price, max_price) ==
    LET k == <<chat_id, Strip(keywords)>>
    IN  /\ UNCHANGED <<first_seen, confirmed, told, sending>>
        /\ lifecycle' =
               IF ValidProductSearch(keywords, min_price, max_price)
                  /\ k \in DOMAIN lifecycle
               THEN [lifecycle EXCEPT ![k] =
                        IF \E r \in product_searches :
                               /\ r.chat_id = k[1] /\ r.keywords = k[2]
                               /\ <<r.min_price, r.max_price>>
                                      # <<min_price, max_price>>
                        THEN "changed"
                        ELSE "added"]
               ELSE lifecycle

\* callers add searches with every pair of price bounds, and remove them
NextUpsert ==
    \/ \E c \in Chats, k \in UserKeywords, mn \in PriceBounds,
          mx \in PriceBounds :
           AddSearch(c, k, mn, mx, "ok") /\ NoteUpsert(c, k, mn, mx)
    \/ \E c \in Chats, k \in UserKeywords : RemoveSearch(c, k, "ok") /\ Quiet

SpecUpsert == Init /\ [][NextUpsert]_vars

\* C20: add_search is an upsert on (chat_id, keywords). When it accepts a
\* search whose key has a row, active or not, the table afterwards holds
\* exactly one row of that key, active and with the price bounds just given,
\* and the rows of other keys are as they were.
C20_Upsert ==
    [][(/\ out'.op = "add_search"
        /\ out'.ret = "True"
        /\ SearchRows(product_searches, out'.args[1], Strip(out'.args[2])) # {})
           => LET c == out'.args[1]
                  k == Strip(out'.args[2])
              IN  /\ \E r \in product_searches' :
                         /\ SearchRows(product_searches', c, k) = {r}
                         /\ r.active
                         /\ r.min_price = out'.args[3]
                         /\ r.max_price = out'.args[4]
                  /\ product_searches' \ SearchRows(product_searches', c, k)
                         = product_searches \ SearchRows(product_searches, c, k)
      ]_vars

\* a search has just been added over a row of other price bounds
C20_Witness ==
    /\ out.op = "add_search"
    /\ out.ret = "True"
    /\ lifecycle[<<out.args[1], Strip(out.args[2])>>] = "changed"
    /\ out.args[3] = 0
    /\ out.args[4] = 1
    /\ \E r \in SearchRows(product_searches, out.args[1], Strip(out.args[2])) :
           r.active /\ r.min_price = 0 /\ r.max_price = 1

-----------------------------------------------------------------------------
(* The counter and the window of the gateway *)

\* C21 as stated, for every send: the counter afterwards is the counter
\* before, plus one if the send was confirmed
C21_AnySend ==
    [][\A svc \in Services, t \in TransportOutcomes :
          Send(svc, t)
          => notification_count'[svc] =
                 notification_count[svc] + (IF out'.ret = "True" THEN 1 ELSE 0)
      ]_vars

\* the counter of instance svc once the window check of a send has run
CountAfterCheck(svc) == IF WindowExpired(svc) THEN 0 ELSE notification_count[svc]

\* C21: counted from what the window check leaves, a confirmed send adds
\* exactly one to the counter of its instance and a send that fails at the
\* transport or is refused by the rate limit adds nothing; the counter of the
\* other instance is as it was.
C21_CounterFrame ==
    [][\A svc \in Services, t \in TransportOutcomes :
          Send(svc, t)
          => /\ notification_count'[svc] =
                    CountAfterCheck(svc) + (IF out'.ret = "True" THEN 1 ELSE 0)
             /\ out'.ret = "True" <=>
                    (t = "ok" /\ CountAfterCheck(svc) < MAX_NOTIFICATIONS_PER_HOUR)
             /\ \A o \in Services \ {svc} :
                    notification_count'[o] = notification_count[o]
      ]_vars

\* a send has just failed at the transport and the one confirmed send of the
\* window is all the counter holds
C21_Witness ==
    \E svc \in Services :
        /\ out.op = "send"
        /\ out.args = <<svc>>
        /\ out.msgs[1].outcome \in {"http_error", "exception"}
        /\ confirmed[svc] = 1
        /\ notification_count[svc] = 1

\* C22: a send made more than the window after the last reset starts a new
\* window at that moment with the counter at zero before capacity is looked
\* at, so it is not refused and the counter afterwards counts that send alone;
\* a send made within the window leaves the start of the window where it was
\* and takes nothing off the counter.
C22_WindowReset ==
    [][\A svc \in Services, t \in TransportOutcomes :
          Send(svc, t)
          => IF now - last_reset[svc] > RATE_WINDOW_HOURS
             THEN /\ last_reset'[svc] = now
                  /\ out'.msgs[1].outcome # "rate_limited"
                  /\ notification_count'[svc] = (IF t = "ok" THEN 1 ELSE 0)
             ELSE /\ last_reset'[svc] = last_reset[svc]
                  /\ notification_count'[svc] >= notification_count[svc]
      ]_vars

\* a send has just been confirmed as the first of a new window, the other
\* instance still refusing in its own
C22_Witness ==
    \E svc \in Services :
        /\ out.op = "send"
        /\ out.args = <<svc>>
        /\ out.ret = "True"
        /\ now > RATE_WINDOW_HOURS
        /\ last_reset[svc] = now
        /\ notification_count[svc] = 1
        /\ \E o \in Services \ {svc} :
               notification_count[o] = MAX_NOTIFICATIONS_PER_HOUR

-----------------------------------------------------------------------------
(* Workers over starts and stops *)

\* C23: at no time does more than one thread execute the polling loop,
\* whatever the sequence of start() and stop() calls.
C23_SingleWorker == Cardinality({w \in Threads : Alive(w)}) <= 1

\* C24: once stop() has been called during a cycle, the worker puts no
\* further search of that cycle to the adapter.
C24_FlagBetweenSearches ==
    [][\A w \in Threads, res \in SiblingResults :
          QuerySearch(w, res) => is_running]_vars

-----------------------------------------------------------------------------
(* The adapter failing *)

\* where search_products_playwright can fail apart from the reading of an
\* item: while the browser navigates, by a status that is not 200, in
\* api_response.json(), or in browser.close() once the items are read
AdapterFaults == {"none", "navigate", "status", "json", "close"}

\* search_products_playwright has logged an error for the response items
AdapterFailed(items, fault) ==
    \/ fault # "none"
    \/ \E i \in 1..Len(items) : ItemError(items[i]) = "TypeError"

\* what search_products_playwright returns: results is [] until the loop
\* over search_objects fills it, and both handlers fall through to
\* `return results`
SearchProductsPlaywright(items, fault) ==
    IF fault \in {"navigate", "status", "json"}
    THEN <<>>
    ELSE ParseSearchObjects(items)

\* _process_search up to the adapter's answer, the adapter failing or not
QueryPlaywright(w, items, fault) ==
    QuerySearch(w, SearchProductsPlaywright(items, fault))

\* cycles over an adapter that can fail at any point; _build_search_url is
\* outside the adapter's try and its exception reaches _process_search
NextAdapterFault ==
    \/ search_thread = 0 /\ Start /\ Quiet
    \/ \E c \in Chats, k \in UserKeywords :
           AddSearch(c, k, None, None, "ok") /\ Quiet
    \/ \E w \in Threads : BeginCycle(w) /\ Quiet
    \/ \E w \in Threads, items \in SearchObjects, fault \in AdapterFaults :
           QueryPlaywright(w, items, fault) /\ Quiet
    \/ \E w \in Threads : Fails(w, "query") /\ Quiet
    \/ \E w \in Threads : Reconcile(w, "ok") /\ Quiet
    \/ \E w \in Threads : Advance(w) /\ Quiet
    \/ \E w \in Threads, due \in BOOLEAN : EndCycle(w, due) /\ Quiet

SpecAdapterFault == Init /\ [][NextAdapterFault]_vars

\* C25: a failure of the adapter for a search counts as no results for that
\* search in that cycle. Whether the exception reaches _process_search or is
\* logged inside the adapter, the search is left with nothing to reconcile, no
\* row of products changes, no message is handed to the gateway, and the
\* search is done with for the cycle.
C25_FailureIsNoResults ==
    [][\A w \in Threads :
          /\ Fails(w, "query")
                 => /\ results'[w] = <<>>
                    /\ pc'[w] = "done"
                    /\ products' = products
                    /\ out'.msgs = <<>>
          /\ \A items \in SearchObjects, fault \in AdapterFaults :
                 (QueryPlaywright(w, items, fault) /\ AdapterFailed(items, fault))
                     => /\ results'[w] = <<>>
                        /\ pc'[w] = "done"
                        /\ products' = products
                        /\ out'.msgs = <<>>
      ]_vars

-----------------------------------------------------------------------------
(* Reconciliation over a store that can fail *)

\* how a call of the store ends: get_product returns None on an exception,
\* add_product and update_product_price return False
StoreOutcomes == {"ok", "error"}

\* HandleNewProductOn as a bug would have it: the notification does not wait
\* for the answer of add_product
HandleNewProductOn_NotifyAnyway(result, chat_id, t, write) ==
    IF ~ValidProduct(result.title, result.price)
    THEN Untouched
    ELSE LET product == [item_id |-> result.id, chat_id |-> chat_id,
                         title |-> Strip(result.title), price |-> result.price,
                         observations |-> <<>>]
             s == SendTelegramMessage("tracker", t)
         IN  [products |-> IF write = "ok" THEN DbAddProduct(products, product)
                           ELSE products,
              count |-> s.count, reset |-> s.reset,
              msgs |-> <<Message("tracker", "new_product", chat_id, result.id,
                                 None, result.price, s.outcome)>>]

\* _handle_new_product, add_product ending as write
HandleNewProductOn(result, chat_id, t, write) ==
    IF ~ValidProduct(result.title, result.price)
    THEN Untouched
    ELSE IF write = "ok"
    THEN LET product == [item_id |-> result.id, chat_id |-> chat_id,
                         title |-> Strip(result.title), price |-> result.price,
                         observations |-> <<>>]
             s == SendTelegramMessage("tracker", t)
         IN  [products |-> DbAddProduct(products, product),
              count |-> s.count, reset |-> s.reset,
              msgs |-> <<Message("tracker", "new_product", chat_id, result.id,
                                 None, result.price, s.outcome)>>]
    ELSE Untouched

\* _handle_existing_product, update_product_price ending as write
HandleExistingProductOn(result, existing, t, write) ==
    IF PriceDropped(result, existing)
    THEN IF ~ValidProduct(result.title, result.price)
         THEN Untouched
         ELSE IF write = "ok"
         THEN LET s == SendTelegramMessage("tracker", t)
              IN  [products |->
                       DbUpdateProductPrice(products, result.id, result.price,
                           <<"Precio anterior", existing.price>>),
                   count |-> s.count, reset |-> s.reset,
                   msgs |-> <<Message("tracker", "price_drop",
                                      existing.chat_id, result.id,
                                      existing.price, result.price, s.outcome)>>]
         ELSE Untouched
    ELSE Untouched

\* _process_product_result, get_product ending as lookup: on an exception it
\* returns None, as it does when there is no row
ProcessProductResultOn(result, chat_id, t, lookup, write) ==
    LET found == IF lookup = "ok"
                 THEN DbGetProduct(products, result.id, chat_id)
                 ELSE {}
    IN  IF found = {}
        THEN HandleNewProductOn(result, chat_id, t, write)
        ELSE HandleExistingProductOn(result, CHOOSE r \in found : TRUE, t, write)

\* the body of the loop over search_results, for the result at its head, the
\* calls of the store ending as lookup and write
ReconcileOn(w, t, lookup, write) ==
    /\ pc[w] = "result"
    /\ LET e == ProcessProductResultOn(Head(results[w]),
                                       Head(queue[w]).chat_id, t, lookup, write)
       IN  /\ products' = e.products
           /\ notification_count' =
                  [notification_count EXCEPT !["tracker"] = e.count]
           /\ last_reset' = [last_reset EXCEPT !["tracker"] = e.reset]
           /\ out' = Output("reconcile", <<lookup, write>>, "None", e.msgs)
    /\ pc' = [pc EXCEPT ![w] = "done"]
    /\ UNCHANGED <<product_searches, now, utc_offset, is_running,
                   search_thread, cleanup_jobs, queue, results>>

\* cycles over a store whose calls can fail
NextStorage ==
    \/ search_thread = 0 /\ Start /\ Quiet
    \/ \E c \in Chats, k \in UserKeywords :
           AddSearch(c, k, None, None, "ok") /\ Quiet
    \/ \E w \in Threads : BeginCycle(w) /\ Quiet
    \/ \E w \in Threads, res \in ResultLists : QuerySearch(w, res) /\ Quiet
    \/ \E w \in Threads, lookup \in StoreOutcomes, write \in StoreOutcomes :
           ReconcileOn(w, "ok", lookup, write) /\ Quiet
    \/ \E w \in Threads : Advance(w) /\ Quiet
    \/ \E w \in Threads, due \in BOOLEAN : EndCycle(w, due) /\ Quiet

SpecStorage == Init /\ [][NextStorage]_vars

\* C26: a message is handed to the gateway only on a reconciliation whose
\* write was reported done, the row of the candidate then holding the
\* candidate's price; when add_product or update_product_price reports
\* failure nothing is handed over, the table is as it was, and the worker
\* goes on with what is left of the results.
C26_PersistThenNotify ==
    [][\A w \in Threads, lookup \in StoreOutcomes, write \in StoreOutcomes :
          ReconcileOn(w, "ok", lookup, write)
          => /\ write = "error"
                    => /\ out'.msgs = <<>>
                       /\ products' = products
                       /\ pc'[w] = "done"
                       /\ results'[w] = results[w]
                       /\ queue'[w] = queue[w]
             /\ out'.msgs # <<>>
                    => /\ write = "ok"
                       /\ \E r \in products' :
                              /\ r.item_id = Head(results[w]).id
                              /\ r.chat_id = Head(queue[w]).chat_id
                              /\ r.price = Head(results[w]).price
      ]_vars

\* the insert of a novel, well-formed candidate has just failed: nothing was
\* handed to the gateway
C26_Witness ==
    \E w \in Threads :
        /\ Reconciled(w, Head(results[w]), Head(queue[w]).chat_id)
        /\ out.args = <<"ok", "error">>
        /\ ValidProduct(Head(results[w]).title, Head(results[w]).price)
        /\ Tracked(Head(results[w]).id, Head(queue[w]).chat_id) = {}
        /\ out.msgs = <<>>

\* C27: a candidate whose (id, scope) has a row never goes down the
\* new-listing path, also when get_product fails: its reconciliation hands no
\* new_product message to the gateway and does not write the row anew (the
\* row keeps its title and creation time, and its price does not rise).
C27_NotFoundOnly ==
    [][\A w \in Threads, lookup \in StoreOutcomes, write \in StoreOutcomes :
          (/\ ReconcileOn(w, "ok", lookup, write)
           /\ Tracked(Head(results[w]).id, Head(queue[w]).chat_id) # {})
          => /\ \A i \in 1..Len(out'.msgs) : out'.msgs[i].kind # "new_product"
             /\ \A r \in Tracked(Head(results[w]).id, Head(queue[w]).chat_id) :
                    \E q \in TrackedAfter(Head(results[w]).id,
                                          Head(queue[w]).chat_id) :
                        /\ q.title = r.title
                        /\ q.created_at = r.created_at
                        /\ q.price <= r.price
      ]_vars

-----------------------------------------------------------------------------
(* What removes a row of the listing store *)

\* searches come and go and the store and the channel fail, while the hours
\* pass and the sweep runs
NextSweep ==
    \/ search_thread = 0 /\ Start /\ Quiet
    \/ \E c \in Chats, k \in UserKeywords :
           AddSearch(c, k, None, None, "ok") /\ Quiet
    \/ \E c \in Chats, k \in UserKeywords : RemoveSearch(c, k, "ok") /\ Quiet
    \/ \E w \in Threads : BeginCycle(w) /\ Quiet
    \/ \E w \in Threads, res \in SteadyResults : QuerySearch(w, res) /\ Quiet
    \/ \E w \in Threads, t \in Transport, lookup \in StoreOutcomes,
          write \in StoreOutcomes :
           ReconcileOn(w, t, lookup, write) /\ Quiet
    \/ \E w \in Threads : Advance(w) /\ Quiet
    \/ \E w \in Threads, due \in BOOLEAN : EndCycle(w, due) /\ Quiet
    \/ Tick /\ Quiet

SpecSweep == Init /\ [][NextSweep]_vars

\* the (listing, chat) pairs that have a row
TrackedKeys(tbl) == {<<r.item_id, r.chat_id>> : r \in tbl}

\* C28: a (listing, chat) pair loses its row on a retention sweep only: every
\* other step, whether it reconciles, adds or removes a search or fails to
\* notify, leaves every pair that has a row with a row.
C28_OnlySweepDeletes ==
    [][~(TrackedKeys(products) \subseteq TrackedKeys(products'))
          => /\ out'.op = "end_cycle"
             /\ cleanup_jobs > 0
             /\ products' = DbCleanupOldProducts(products, ITEM_CLEANUP_HOURS)
      ]_vars

\* a search has just been removed and the listing tracked for its chat is
\* still in the store, older than the horizon and not yet swept
C28_Witness ==
    /\ out.op = "remove_search"
    /\ \E r \in products :
           /\ r.chat_id = out.args[1]
           /\ Age(r) > ITEM_CLEANUP_HOURS
    /\ \A q \in product_searches : q.chat_id = out.args[1] => ~q.active

-----------------------------------------------------------------------------
(* What each chat has been told *)

\* history: a reconciliation for chat s that creates the row of the listing,
\* or hands the gateway a price_drop message for s, has announced the
\* candidate's price to s
NoteTold(w) ==
    LET c == Head(results[w])
        s == Head(queue[w]).chat_id
    IN  /\ UNCHANGED <<first_seen, lifecycle, confirmed, sending>>
        /\ told' =
            IF \/ Tracked(c.id, s) = {} /\ TrackedAfter(c.id, s) # {}
               \/ \E i \in 1..Len(out'.msgs) :
                      out'.msgs[i].kind = "price_drop" /\ out'.msgs[i].chat_id = s
            THEN [told EXCEPT ![<<s, c.id>>] = c.price]
            ELSE told

\* cycles over the searches of several chats, the channel answering or
\* failing; no sweep deletes a row, the hours not passing
NextScopes ==
    \/ search_thread = 0 /\ Start /\ Quiet
    \/ \E c \in Chats, k \in UserKeywords :
           AddSearch(c, k, None, None, "ok") /\ Quiet
    \/ \E w \in Threads : BeginCycle(w) /\ Quiet
    \/ \E w \in Threads, res \in ResultLists : QuerySearch(w, res) /\ Quiet
    \/ \E w \in Threads, t \in Transport : Reconcile(w, t) /\ NoteTold(w)
    \/ \E w \in Threads : Advance(w) /\ Quiet
    \/ \E w \in Threads, due \in BOOLEAN : EndCycle(w, due) /\ Quiet

SpecScopes == Init /\ [][NextScopes]_vars

\* C29: every chat gets its own price_drop. When the search of chat s
\* returns a listing (of non-blank title) that s tracks, at a price below the
\* one last announced to s, the reconciliation hands the gateway exactly one
\* price_drop message for s, from the announced price to the new one,
\* whatever has been reconciled for other chats before.
C29_DropPerScope ==
    [][\A w \in Threads, c \in Candidates, s \in Chats :
          (/\ Reconciles(w, c, s)
           /\ Strip(c.title) # <<>>
           /\ Tracked(c.id, s) # {}
           /\ told[<<s, c.id>>] # None
           /\ c.price < told[<<s, c.id>>])
          => out'.msgs \in Sent("price_drop", s, c.id, told[<<s, c.id>>], c.price)
      ]_vars

\* the cycles of NextScopes over a channel that is down: every message a
\* reconciliation hands to the gateway is dropped, by the transport or by the
\* rate limit
NextDropped ==
    \/ search_thread = 0 /\ Start /\ Quiet
    \/ \E c \in Chats, k \in UserKeywords :
           AddSearch(c, k, None, None, "ok") /\ Quiet
    \/ \E w \in Threads : BeginCycle(w) /\ Quiet
    \/ \E w \in Threads, res \in ResultLists : QuerySearch(w, res) /\ Quiet
    \/ \E w \in Threads : Reconcile(w, "http_error") /\ NoteTold(w)
    \/ \E w \in Threads : Advance(w) /\ Quiet
    \/ \E w \in Threads, due \in BOOLEAN : EndCycle(w, due) /\ Quiet

SpecDropped == Init /\ [][NextDropped]_vars

\* C30: a notification that was dropped is not sent again. A reconciliation
\* whose message was refused by the rate limit or failed at the transport
\* leaves the row of the candidate holding the candidate's price; and a
\* reconciliation of a tracked listing at the price last announced to the
\* chat, delivered or not, hands the gateway nothing.
C30_NoRetry ==
    [][\A w \in Threads, c \in Candidates, s \in Chats :
          Reconciles(w, c, s)
          => /\ (out'.msgs # <<>> /\ out'.msgs[1].outcome # "ok")
                    => \E r \in TrackedAfter(c.id, s) : r.price = c.price
             /\ (Tracked(c.id, s) # {} /\ told[<<s, c.id>>] = c.price)
                    => out'.msgs = <<>>
      ]_vars

-----------------------------------------------------------------------------
(* add_search over a store and a channel that can fail *)

\* AddSearchOn as a bug would have it: the answer of the confirmation
\* decides what add_search returns
AddSearchOn_AckDecides(chat_id, keywords, min_price, max_price, t, write) ==
        LET s == SendTelegramMessage("tracker", t)
            valid == ValidProductSearch(keywords, min_price, max_price)
            search == [chat_id |-> chat_id, keywords |-> Strip(keywords),
                       min_price |-> min_price, max_price |-> max_price,
                       active |-> TRUE]
        IN  /\ product_searches' =
                  IF valid /\ write = "ok"
                  THEN DbAddSearch(product_searches, search)
                  ELSE product_searches
            /\ IF valid /\ write # "ok"
               THEN UNCHANGED <<notification_count, last_reset>>
               ELSE GatewayBecomes("tracker", s)
            /\ out' = Output("add_search",
                             <<chat_id, keywords, min_price, max_price,
                               t, write>>,
                             IF valid /\ write = "ok" /\ s.ret
                             THEN "True" ELSE "False",
                             IF valid /\ write # "ok" THEN <<>>
                             ELSE <<Message("tracker",
                                       IF valid THEN "search_added" ELSE "error",
                                       chat_id, "", None, None, s.outcome)>>)
            /\ UNCHANGED <<products, now, utc_offset, is_running,
                           search_thread, cleanup_jobs, pc, queue, results>>

\* ProductTracker.add_search, db.add_search ending as write: ProductSearch(...)
\* raising sends the error message and returns False; a write reported
\* failed returns False with nothing sent; a write reported done is followed
\* by notify_search_added, whose return value is not looked at
AddSearchOn(chat_id, keywords, min_price, max_price, t, write) ==
        LET s == SendTelegramMessage("tracker", t)
            valid == ValidProductSearch(keywords, min_price, max_price)
            search == [chat_id |-> chat_id, keywords |-> Strip(keywords),
                       min_price |-> min_price, max_price |-> max_price,
                       active |-> TRUE]
        IN  /\ product_searches' =
                  IF valid /\ write = "ok"
                  THEN DbAddSearch(product_searches, search)
                  ELSE product_searches
            /\ IF valid /\ write # "ok"
               THEN UNCHANGED <<notification_count, last_reset>>
               ELSE GatewayBecomes("tracker", s)
            /\ out' = Output("add_search",
                             <<chat_id, keywords, min_price, max_price,
                               t, write>>,
                             IF valid /\ write = "ok" THEN "True" ELSE "False",
                             IF valid /\ write # "ok" THEN <<>>
                             ELSE <<Message("tracker",
                                       IF valid THEN "search_added" ELSE "error",
                                       chat_id, "", None, None, s.outcome)>>)
            /\ UNCHANGED <<products, now, utc_offset, is_running,
                           search_thread, cleanup_jobs, pc, queue, results>>

\* the chat whose user types the commands
Caller == CHOOSE c \in Chats : TRUE

\* a caller adds searches with every kind of argument, the store and the
\* channel answering or failing
NextPersist ==
    \E k \in TypedKeywords, mn \in PriceBounds, mx \in PriceBounds,
       t \in TransportOutcomes, write \in StoreOutcomes :
        AddSearchOn(Caller, k, mn, mx, t, write) /\ Quiet

SpecPersist == Init /\ [][NextPersist]_vars

\* the row add_search writes for its arguments
PersistedRow(chat_id, keywords, min_price, max_price) ==
    SearchRow([chat_id |-> chat_id, keywords |-> Strip(keywords),
               min_price |-> min_price, max_price |-> max_price,
               active |-> TRUE])

\* C31: add_search returns True exactly when its arguments are valid and
\* the write was reported done, the row of the search then being in the
\* table; it returns False otherwise, the table as it was; and whatever
\* becomes of the confirmation (sent, refused by the rate limit, failed at
\* the transport) the return value and the table are the same.
C31_TrueIffPersisted ==
    [][LET c == out'.args[1]
           k == out'.args[2]
           mn == out'.args[3]
           mx == out'.args[4]
           t == out'.args[5]
           write == out'.args[6]
       IN  (/\ out'.op = "add_search"
            /\ Len(out'.args) = 6
            /\ t \in TransportOutcomes
            /\ write \in StoreOutcomes
            /\ AddSearchOn(c, k, mn, mx, t, write))
           => /\ out'.ret \in {"True", "False"}
              /\ out'.ret = "True" <=>
                     (ValidProductSearch(k, mn, mx) /\ write = "ok")
              /\ out'.ret = "True" =>
                     /\ PersistedRow(c, k, mn, mx) \in product_searches'
                     /\ product_searches' =
                            DbAddSearch(product_searches,
                                [chat_id |-> c, keywords |-> Strip(k),
                                 min_price |-> mn, max_price |-> mx,
                                 active |-> TRUE])
              /\ out'.ret = "False" => product_searches' = product_searches
              /\ (ValidProductSearch(k, mn, mx) /\ write = "ok")
                     => /\ Len(out'.msgs) = 1
                        /\ out'.msgs[1].kind = "search_added"
                        /\ out'.msgs[1].outcome \in
                               {"ok", "http_error", "exception", "rate_limited"}
      ]_vars

\* add_search has just returned True with its row written, its confirmation
\* refused by the rate limit
C31_Witness ==
    /\ out.op = "add_search"
    /\ out.ret = "True"
    /\ Len(out.msgs) = 1
    /\ out.msgs[1].kind = "search_added"
    /\ out.msgs[1].outcome = "rate_limited"
    /\ \E r \in product_searches :
           r.chat_id = out.args[1] /\ r.keywords = Strip(out.args[2])

-----------------------------------------------------------------------------
(* The registry as each cycle reads it *)

\* a step of the worker thread w in a cycle where nothing fails
RefreshStep(w) ==
    \/ BeginCycle(w) /\ Quiet
    \/ \E res \in SteadyResults : QuerySearch(w, res) /\ Quiet
    \/ Reconcile(w, "ok") /\ Quiet
    \/ Advance(w) /\ Quiet
    \/ EndCycle(w, FALSE) /\ Quiet

\* the engine is started once; users add, remove and add again their
\* searches while the worker polls
NextRefresh ==
    \/ search_thread = 0 /\ Start /\ Quiet
    \/ \E c \in Chats, k \in UserKeywords :
           AddSearch(c, k, None, None, "ok") /\ Quiet
    \/ \E c \in Chats, k \in UserKeywords :
           RemoveSearch(c, k, "ok") /\ Quiet
    \/ \E w \in Threads : RefreshStep(w)

SpecRefresh == Init /\ [][NextRefresh]_vars

\* the same, the scheduler letting every thread that can step do so
SpecRefreshFair == SpecRefresh /\ \A w \in Threads : WF_vars(RefreshStep(w))

\* the searches whose row is active
ActiveSearches == {SearchOfRow(r) : r \in {x \in product_searches : x.active}}

\* the search of chat c is in the list the cycle of thread w fetched
Listed(w, c) == \E i \in 1..Len(queue[w]) : queue[w][i].chat_id = c

\* C32: the list a cycle works through is read from the registry when the
\* cycle begins and holds, once each, exactly the searches whose row is
\* active at that moment: one that was deactivated before is not in it, one
\* that was added or added again before is. Within the cycle the list only
\* loses its head, once that search has been put to the adapter, a query
\* being of the head of the list; and every search in the list comes to be
\* put to the adapter in that cycle.
C32_FreshList ==
    /\ [][\A w \in Threads :
              /\ (pc[w] = "loop" /\ pc'[w] = "search")
                     => /\ {queue'[w][i] : i \in 1..Len(queue'[w])}
                               = ActiveSearches
                        /\ Len(queue'[w]) = Cardinality(ActiveSearches)
              /\ (pc[w] # "loop" /\ queue'[w] # queue[w])
                     => (pc[w] = "done" /\ queue'[w] = Tail(queue[w]))
              /\ (pc[w] = "search" /\ pc'[w] \in {"result", "done"})
                     => (queue[w] # <<>> /\ queue'[w] = queue[w])
         ]_vars
    /\ \A w \in Threads, c \in Chats : Listed(w, c) ~> Queried(w, c)

\* a cycle has just fetched its list: the search of one chat, removed before,
\* is not in it, and the search of the other chat is
C32_Witness ==
    /\ out.op = "begin_cycle"
    /\ pc[1] = "search"
    /\ \E r \in product_searches : ~r.active /\ ~Listed(1, r.chat_id)
    /\ \E r \in product_searches : r.active /\ Listed(1, r.chat_id)
    /\ Len(queue[1]) = 1

-----------------------------------------------------------------------------
(* Polling goes on *)

\* the scheduler lets every thread that can step do so, and the read of the
\* active searches does not fail in every cycle for ever
SpecPollFair ==
    /\ SpecFault
    /\ \A w \in Threads :
           /\ WF_vars(WorkerStep(w))
           /\ SF_vars(BeginCycle(w) /\ Quiet)

\* chat c has a search whose row is active
HasActiveSearch(c) == \E r \in product_searches : r.chat_id = c /\ r.active

-----------------------------------------------------------------------------
(* The rows of the registry read back *)

\* C34: every row of product_searches has keywords that are not empty and
\* carry no blank at either end and, with both bounds set, min_price below
\* max_price; so each row passes ProductSearch(...) when it is read back, and
\* the read of the active searches returns every active row, an empty list
\* only when no row is active.
C34_RowsReadBack ==
    /\ \A r \in product_searches :
           /\ r.keywords # <<>>
           /\ Strip(r.keywords) = r.keywords
           /\ Len(r.keywords) <= KEYWORDS_MAX_LENGTH
           /\ (r.min_price # None /\ r.max_price # None)
                  => r.min_price < r.max_price
           /\ ValidProductSearch(r.keywords, r.min_price, r.max_price)
    /\ DbGetAllActiveSearches(product_searches) = ActiveSearches
    /\ (DbGetAllActiveSearches(product_searches) = {})
           <=> ~\E r \in product_searches : r.active

\* a search typed with a blank before its keywords and with both bounds has
\* just been stored, beside a search that was removed
C34_Witness ==
    /\ out.op = "add_search"
    /\ out.ret = "True"
    /\ out.args[2] = <<" ", "a">>
    /\ out.args[3] # None
    /\ out.args[4] # None
    /\ \E r \in product_searches :
           r.chat_id = out.args[1] /\ r.active /\ r.min_price # None
    /\ \E r \in product_searches : ~r.active

-----------------------------------------------------------------------------
(* The stored price of a listing over time *)

\* C35: from one state to the next, the price in the row of a (listing, chat)
\* pair that keeps its row does not rise, whichever chat's search is being
\* reconciled.
C35_PriceNeverRises ==
    [][\A r \in products, q \in products' :
           (q.item_id = r.item_id /\ q.chat_id = r.chat_id)
               => q.price <= r.price
      ]_vars

-----------------------------------------------------------------------------
(* _send_telegram_message step by step, called from two threads *)

\* a step inside the gateway leaves the history variables as they are
Still == UNCHANGED <<first_seen, lifecycle, confirmed, told>>

\* what a step inside the gateway leaves alone
GatewayOnly ==
    UNCHANGED <<product_searches, products, now, utc_offset, is_running,
                search_thread, cleanup_jobs, pc, queue, results>>

\* thread c enters _send_telegram_message on the tracker's instance and runs
\* _check_rate_limit: refused, it returns False; let through, it goes on to
\* build the request
SendBegin(c) ==
    /\ sending[c].at = "idle"
    /\ LET k == CheckRateLimit("tracker")
       IN  /\ notification_count' =
                  [notification_count EXCEPT !["tracker"] = k.count]
           /\ last_reset' = [last_reset EXCEPT !["tracker"] = k.reset]
           /\ sending' = [sending EXCEPT
                  ![c] = [at |-> IF k.ok THEN "checked" ELSE "idle",
                          seen |-> 0]]
           /\ out' = Output("send_check", <<c>>,
                            IF k.ok THEN "None" ELSE "False", <<>>)
    /\ GatewayOnly

\* requests.post of thread c answers t: on status 200 the thread goes on to
\* the increment, otherwise (another status, an exception caught) it returns
\* False
SendPost(c, t) ==
    /\ sending[c].at = "checked"
    /\ sending' = [sending EXCEPT
           ![c] = [at |-> IF t = "ok" THEN "posted" ELSE "idle", seen |-> 0]]
    /\ out' = Output("send_post", <<c, t>>,
                     IF t = "ok" THEN "None" ELSE "False", <<>>)
    /\ UNCHANGED <<notification_count, last_reset>>
    /\ GatewayOnly

\* self.notification_count += 1, its read of the attribute
SendLoad(c) ==
    /\ sending[c].at = "posted"
    /\ sending' = [sending EXCEPT
           ![c] = [at |-> "loaded", seen |-> notification_count["tracker"]]]
    /\ out' = Output("send_load", <<c>>, "None", <<>>)
    /\ UNCHANGED <<notification_count, last_reset>>
    /\ GatewayOnly

\* self.notification_count += 1, its write of the attribute; the thread
\* returns True
SendStore(c) ==
    /\ sending[c].at = "loaded"
    /\ notification_count' =
           [notification_count EXCEPT !["tracker"] = sending[c].seen + 1]
    /\ sending' = [sending EXCEPT ![c] = [at |-> "idle", seen |-> 0]]
    /\ out' = Output("send_store", <<c>>, "True", <<>>)
    /\ UNCHANGED last_reset
    /\ GatewayOnly

\* the worker and a command thread send through the tracker's instance, each
\* at its own pace, while hours pass
NextRace ==
    \/ \E c \in Callers : SendBegin(c) /\ Still
    \/ \E c \in Callers, t \in TransportOutcomes : SendPost(c, t) /\ Still
    \/ \E c \in Callers : SendLoad(c) /\ Still
    \/ \E c \in Callers : SendStore(c) /\ Still
    \/ Tick /\ Quiet

SpecRace == Init /\ [][NextRace]_vars

\* C36: the counter of every NotificationService instance is in
\* 0..MAX_NOTIFICATIONS_PER_HOUR in every reachable state.
C36_CounterBounded ==
    \A svc \in Services :
        /\ 0 <= notification_count[svc]
        /\ notification_count[svc] <= MAX_NOTIFICATIONS_PER_HOUR

-----------------------------------------------------------------------------
(* remove_search of a search that is not there *)

\* C37: remove_search returns True, and hands the gateway the search_removed
\* confirmation, only when product_searches held a row of (chat_id, keywords),
\* which is then inactive; with no such row it returns False, hands over no
\* confirmation and leaves the table as it was.
C37_RemoveOnlyExisting ==
    [][\A c \in Chats, k \in TypedKeywords :
          (/\ out'.op = "remove_search"
           /\ out'.args = <<c, k>>
           /\ \E t \in TransportOutcomes : RemoveSearch(c, k, t))
          => /\ (out'.ret = "True"
                    \/ \E i \in 1..Len(out'.msgs) :
                           out'.msgs[i].kind = "search_removed")
                     => /\ SearchRows(product_searches, c, k) # {}
                        /\ \A r \in SearchRows(product_searches', c, k) :
                               ~r.active
             /\ SearchRows(product_searches, c, k) = {}
                     => /\ out'.ret = "False"
                        /\ product_searches' = product_searches
      ]_vars

-----------------------------------------------------------------------------
(* A search removed while a cycle is under way *)

\* C38: a reconciliation delivers a new_product or price_drop message only
\* for a search whose row is active: once remove_search has returned True for
\* a search, and until the search is added again, no such message comes from
\* it, wherever the worker is in its cycle.
C38_SilentOnceRemoved ==
    [][\A w \in Threads :
          (/\ out'.op = "reconcile"
           /\ pc[w] = "result"
           /\ pc'[w] = "done"
           /\ \E i \in 1..Len(out'.msgs) :
                  /\ out'.msgs[i].kind \in {"new_product", "price_drop"}
                  /\ out'.msgs[i].outcome = "ok")
          => \E r \in product_searches :
                 /\ r.chat_id = Head(queue[w]).chat_id
                 /\ r.keywords = Head(queue[w]).keywords
                 /\ r.active
      ]_vars

-----------------------------------------------------------------------------
(* A listing that stays on offer across sweeps *)

\* what the adapter returns for every query while the listing stays on offer
StandingResults == {<<[id |-> "i1", title |-> <<"t">>, price |-> 1]>>}

\* cycles in which every search returns the same listing at the same price,
\* while hours pass and the sweep runs when it is due
NextStanding ==
    \/ search_thread = 0 /\ Start /\ Quiet
    \/ \E c \in Chats, k \in UserKeywords :
           AddSearch(c, k, None, None, "ok") /\ Quiet
    \/ \E w \in Threads : BeginCycle(w) /\ Quiet
    \/ \E w \in Threads, res \in StandingResults : QuerySearch(w, res) /\ Quiet
    \/ \E w \in Threads, t \in Transport : Reconcile(w, t) /\ NoteTold(w)
    \/ \E w \in Threads : Advance(w) /\ Quiet
    \/ \E w \in Threads, due \in BOOLEAN : EndCycle(w, due) /\ Quiet
    \/ Tick /\ Quiet

SpecStanding == Init /\ [][NextStanding]_vars

\* C39: a listing that every cycle returns is announced as new once per chat:
\* the reconciliation of a listing for a chat that was already given a row for
\* it hands the gateway no new_product message, whatever sweeps ran since.
C39_AnnouncedOnce ==
    [][\A w \in Threads :
          (/\ out'.op = "reconcile"
           /\ pc[w] = "result"
           /\ pc'[w] = "done"
           /\ told[<<Head(queue[w]).chat_id, Head(results[w]).id>>] # None)
          => ~\E i \in 1..Len(out'.msgs) : out'.msgs[i].kind = "new_product"
      ]_vars

=============================================================================
